---- MODULE Spec2Model ----
(***************************************************************************)
(* Model serving control plane of the donut trainer backend:               *)
(*   training/inference_engine.py  ModelCache, InferenceEngine             *)
(*   training/model_manager.py     ModelPromotionCriteria, ABTestManager,  *)
(*                                 ModelManager                            *)
(*   api/views.py                  TrainedModelViewSet.promote             *)
(*   training/models.py            TrainedModel                            *)
(***************************************************************************)
EXTENDS Integers, Sequences, FiniteSets, TLC

\* ------------------------------------------------------------------------
\* Bounds of the model
\* ------------------------------------------------------------------------

\* largest reading of the wall clock (time.time() / datetime.now())
MaxTime == 2

\* the last reading of the clock while extract calls share the cache with
\* a direct caller
MaxSharedTime == 1

\* largest number of A/B tests started
MaxTests == 1

\* largest number of requests routed through one A/B test by
\* get_model_for_inference
MaxRoutes == 2

\* largest number of requests routed through one A/B test by direct calls
\* of get_model_for_request
MaxRequests == 3

\* largest number of A/B tests held when start_ab_test is called directly
MaxStarts == 2

\* largest value of a success counter of an A/B test
MaxSuccess == 1

\* largest batch_size batch_extract is called with
MaxBatch == 2

\* seconds the clock runs for where A/B tests are started and left to expire
MaxSeconds == 2


\* ------------------------------------------------------------------------
\* Program constants
\* ------------------------------------------------------------------------

\* InferenceEngine.__init__: ModelCache(max_models=3)
max_models == 3

\* Python's None where the other values are strings ...
None == "None"
\* ... and where they are tuples (cache keys, handles)
Nil == <<>>
\* the ModelCache lock when no thread holds it
Free == "Free"

\* TrainedModel rows of the store (primary keys)
ModelIds == {"m1", "m2", "m3", "m4"}

\* threads that call the ModelCache directly
Callers == {"c1", "c2"}

\* cache_key = f"model_{model.id}"
CacheKey(m) == <<"model_", m>>

CacheKeys == {CacheKey(m) : m \in ModelIds}

\* concurrent InferenceEngine.extract calls (one request each)
Requests == {"e1", "e2"}

\* concurrent calls of the promote endpoint (one request each)
Promoters == {"p1", "p2"}

\* runs of the periodic auto_promote_models task
AutoRuns == {"a1"}

\* DocumentType.name of the document types in the store
DocTypes == {"invoice", "form_16"}

\* TrainedModel.document_type (never written by this code)
document_type(m) == IF m = "m4" THEN "form_16" ELSE "invoice"

\* TrainedModel.version (never written by this code)
version(m) == CASE m = "m1" -> "v1" [] m = "m2" -> "v2" [] m = "m3" -> "v3" [] OTHER -> "v4"

\* TrainedModel.created_at as a rank; Meta.ordering = ['-created_at']
created_at(m) == CASE m = "m1" -> 1 [] m = "m2" -> 2 [] m = "m3" -> 3 [] OTHER -> 4

\* training_job.status == 'completed'
training_completed(m) == TRUE

\* ModelPromotionCriteria defaults; fractions are <<numerator, denominator>>
min_evaluations == 10
min_accuracy == <<85, 100>>
improvement_threshold == <<5, 100>>
confidence_threshold == <<80, 100>>

\* n copies of one ModelEvaluation row
Rep(n, e) == [i \in 1..n |-> e]

NoScore == <<>>

\* model.evaluations: ModelEvaluation rows (field_matches, total_fields,
\* confidence_score), written by the evaluation task only
evaluations(m) ==
    CASE m = "m1" -> Rep(10, [field_matches |-> 16, total_fields |-> 20, confidence_score |-> <<9, 10>>])
      [] m = "m2" -> Rep(10, [field_matches |-> 18, total_fields |-> 20, confidence_score |-> <<9, 10>>])
      [] m = "m3" -> Rep(9, [field_matches |-> 20, total_fields |-> 20, confidence_score |-> <<9, 10>>])
                     \o <<[field_matches |-> 5, total_fields |-> 5, confidence_score |-> NoScore]>>
      [] OTHER    -> Rep(2, [field_matches |-> 4, total_fields |-> 4, confidence_score |-> <<9, 10>>])

VARIABLES
    now,            \* the wall clock
    models,         \* ModelCache.models: cache key -> loaded handle
    access_times,   \* ModelCache.access_times, in dict insertion order
    lock,           \* ModelCache.lock: Free or the thread inside `with self.lock`
    log_evicted,    \* key in the "Evicted model ..." line logged by the cache
                    \* call that returned last; Nil if it logged none
    cop,            \* per direct cache caller: the ModelCache call it is inside
    cret,           \* value returned by the cache call of a direct caller
                    \* that returned last (Nil: absent, or no value)
    db,             \* the TrainedModel table: id -> stored row
    inference_stats,\* InferenceEngine.inference_stats: model id -> total_inferences
    ext,            \* per extract request: position and locals
    prom,           \* per promote request: position and locals
    auto,           \* per auto_promote_models run: position and locals
    active_tests,   \* ABTestManager.active_tests, in dict insertion order
    routed,         \* model returned by the get_model_for_inference call
                    \* that returned last (None: no model, or no call)
    route_log,      \* the arms returned so far to requests that carried a
                    \* user id: <<user id, test id, traffic split, model>>
                    \* -> number of times
    batch,          \* the batch_extract call: position and locals
    evaluated,      \* the evaluate_model call: its input and what it returned
    returned,       \* value returned by the create_challenger_test or
                    \* get_test_results call that returned last
    router,         \* per thread calling the ABTestManager concurrently:
                    \* position and locals
    scored          \* the ConfidenceCalculator / InferenceEngine scoring
                    \* call: its input and what it returned

cacheVars == <<models, access_times, lock, log_evicted>>
callerVars == <<cop, cret>>
storeVars == <<db>>
engineVars == <<inference_stats, ext>>
promoteVars == <<prom, auto>>
abVars == <<active_tests, routed, route_log>>
batchVars == <<batch>>
criteriaVars == <<evaluated>>
managerVars == <<returned, router>>
scorerVars == <<scored>>
vars == <<now, models, access_times, lock, log_evicted, cop, cret,
          db, inference_stats, ext, prom, auto, active_tests, routed, route_log,
          batch, evaluated, returned, router, scored>>

\* ------------------------------------------------------------------------
\* ModelCache (inference_engine.py:27-63)
\* ------------------------------------------------------------------------

\* keys of a dict kept as a sequence of [key, t] entries
AtKeys(at) == {at[i].key : i \in DOMAIN at}

\* access_times[key] = t : an existing key keeps its position, a new one
\* goes last
AtSet(at, key, t) ==
    IF key \in AtKeys(at)
    THEN [i \in DOMAIN at |-> IF at[i].key = key THEN [key |-> key, t |-> t] ELSE at[i]]
    ELSE Append(at, [key |-> key, t |-> t])

\* del access_times[key]
AtDel(at, key) == SelectSeq(at, LAMBDA e : e.key # key)

\* variant of LruKey: among equal minimal times the last key in iteration
\* order
LruKey_last(at) ==
    LET least == CHOOSE i \in DOMAIN at :
                    /\ \A j \in DOMAIN at : at[i].t <= at[j].t
                    /\ \A j \in DOMAIN at : (j > i) => at[j].t > at[i].t
    IN  at[least].key

\* min(self.access_times, key=self.access_times.get): the first key, in
\* iteration order, whose time is minimal
LruKey(at) ==
    LET least == CHOOSE i \in DOMAIN at :
                    /\ \A j \in DOMAIN at : at[i].t <= at[j].t
                    /\ \A j \in DOMAIN at : (j < i) => at[j].t > at[i].t
    IN  at[least].key

\* del self.models[key]
DictDel(d, key) == [k \in (DOMAIN d) \ {key} |-> d[k]]

\* self.models[key] = value
DictSet(d, key, value) ==
    [k \in (DOMAIN d) \cup {key} |-> IF k = key THEN value ELSE d[k]]

\* variant of CacheFull: `>` in place of `>=`
CacheFull_gt(ms, key) == Cardinality(DOMAIN ms) > max_models /\ key \notin DOMAIN ms

\* the condition of the eviction branch of put_model
CacheFull(ms, key) == Cardinality(DOMAIN ms) >= max_models /\ key \notin DOMAIN ms

\* body of get_model under the lock: the value returned
get_model_result(ms, key) == IF key \in DOMAIN ms THEN ms[key] ELSE Nil

\* body of get_model under the lock: access_times afterwards
get_model_times(ms, at, key, t) ==
    IF key \in DOMAIN ms THEN AtSet(at, key, t) ELSE at

\* variant of put_model: a key the cache holds keeps the handle it has
put_model_keeps_first(ms, at, key, handle, t) ==
    LET evict == CacheFull(ms, key)
        lru   == LruKey(at)
        ms1   == IF evict THEN DictDel(ms, lru) ELSE ms
        at1   == IF evict THEN AtDel(at, lru) ELSE at
    IN  [models |-> IF key \in DOMAIN ms THEN ms ELSE DictSet(ms1, key, handle),
         access_times |-> AtSet(at1, key, t),
         evicted |-> IF evict THEN lru ELSE Nil]

\* body of put_model under the lock: the cache afterwards
put_model(ms, at, key, handle, t) ==
    LET evict == CacheFull(ms, key)
        lru   == LruKey(at)
        ms1   == IF evict THEN DictDel(ms, lru) ELSE ms
        at1   == IF evict THEN AtDel(at, lru) ELSE at
    IN  [models |-> DictSet(ms1, key, handle),
         access_times |-> AtSet(at1, key, t),
         evicted |-> IF evict THEN lru ELSE Nil]

EmptyDict == [k \in {} |-> Nil]

\* ------------------------------------------------------------------------
\* Fractions <<numerator, denominator>> with a positive denominator, kept
\* in lowest terms
\* ------------------------------------------------------------------------

RECURSIVE GCD(_, _)
GCD(a, b) == IF b = 0 THEN a ELSE GCD(b, a % b)

Abs(x) == IF x < 0 THEN 0 - x ELSE x

RNorm(n, d) ==
    LET g == GCD(Abs(n), d)
    IN  IF n = 0 THEN <<0, 1>> ELSE <<n \div g, d \div g>>

RAdd(a, b) == RNorm(a[1] * b[2] + b[1] * a[2], a[2] * b[2])
RSub(a, b) == RNorm(a[1] * b[2] - b[1] * a[2], a[2] * b[2])
RDivInt(a, k) == RNorm(a[1], a[2] * k)
RLess(a, b) == a[1] * b[2] < b[1] * a[2]

RECURSIVE RSum(_)
RSum(seq) == IF seq = <<>> THEN <<0, 1>> ELSE RAdd(Head(seq), RSum(Tail(seq)))

\* max(a, b)
Max(a, b) == IF a >= b THEN a ELSE b

\* ------------------------------------------------------------------------
\* TrainedModel rows (models.py:93-137) and queries on them
\* ------------------------------------------------------------------------

\* null timestamp / null float of a row
NoTime == -1
NoAvg == <<>>

\* a row as created by the training task: field defaults of TrainedModel
NewRow(st) ==
    [status |-> st, is_production |-> FALSE, promoted_at |-> NoTime,
     inference_count |-> 0, last_used_at |-> NoTime, avg_inference_time |-> NoAvg]

\* the newest row of a set: QuerySet.first() under ordering -created_at
Newest(S) == CHOOSE x \in S : \A y \in S : created_at(y) <= created_at(x)

\* filter(document_type=dt, is_production=True, status='active')
ProductionRows(store, dt) ==
    {x \in ModelIds : /\ document_type(x) = dt
                     /\ store[x].is_production
                     /\ store[x].status = "active"}

\* filter(version=v, status='active')
ActiveWithVersion(store, v) ==
    {x \in ModelIds : version(x) = v /\ store[x].status = "active"}

\* variant of Demote: the update clears is_production only
Demote_keeps_status(store, dt) ==
    [x \in ModelIds |->
        IF document_type(x) = dt /\ store[x].is_production
        THEN [store[x] EXCEPT !.is_production = FALSE]
        ELSE store[x]]

\* variant of Demote: the production rows of every document type are
\* demoted
Demote_any_type(store, dt) ==
    [x \in ModelIds |->
        IF store[x].is_production
        THEN [store[x] EXCEPT !.is_production = FALSE, !.status = "inactive"]
        ELSE store[x]]

\* filter(document_type=dt, is_production=True)
\*     .update(is_production=False, status='inactive')
Demote(store, dt) ==
    [x \in ModelIds |->
        IF document_type(x) = dt /\ store[x].is_production
        THEN [store[x] EXCEPT !.is_production = FALSE, !.status = "inactive"]
        ELSE store[x]]

\* model.save(): every column of the row is written from the instance
Save(store, m, row) == [store EXCEPT ![m] = row]

\* ------------------------------------------------------------------------
\* ModelPromotionCriteria.evaluate_model (model_manager.py:31-99)
\* ------------------------------------------------------------------------

\* e.field_matches / max(e.total_fields, 1)
Accuracy(e) == RNorm(e.field_matches, Max(e.total_fields, 1))

\* e.confidence_score or 0.5
Confidence(e) ==
    IF e.confidence_score = NoScore \/ e.confidence_score[1] = 0
    THEN <<1, 2>>
    ELSE e.confidence_score

\* sum(... for e in evaluations) / len(evaluations)
AvgAccuracy(evals) == RDivInt(RSum([i \in DOMAIN evals |-> Accuracy(evals[i])]), Len(evals))
AvgConfidence(evals) == RDivInt(RSum([i \in DOMAIN evals |-> Confidence(evals[i])]), Len(evals))

\* the averages of each model's evaluation rows; the rows are not written
\* by this code, so the averages are the same whenever they are computed
evaluation_count == [m \in ModelIds |-> Len(evaluations(m))]
avg_accuracy == [m \in ModelIds |-> AvgAccuracy(evaluations(m))]
avg_confidence == [m \in ModelIds |-> AvgConfidence(evaluations(m))]

\* variant of EvaluateGates: the count gate lets one evaluation fewer pass
EvaluateGates_short_count(count, acc, conf, compare, cur_acc) ==
    LET m0 == [evaluation_count |-> count]
        m1 == [evaluation_count |-> count, avg_accuracy |-> acc, avg_confidence |-> conf]
        improvement == RSub(acc, cur_acc)
    IN  IF count < min_evaluations - 1
        THEN [promotable |-> FALSE, reasons |-> <<"Insufficient evaluations">>, metrics |-> m0]
        ELSE IF RLess(acc, min_accuracy)
        THEN [promotable |-> FALSE, reasons |-> <<"Accuracy too low">>, metrics |-> m1]
        ELSE IF RLess(conf, confidence_threshold)
        THEN [promotable |-> FALSE, reasons |-> <<"Confidence too low">>, metrics |-> m1]
        ELSE IF compare /\ RLess(improvement, improvement_threshold)
        THEN [promotable |-> FALSE, reasons |-> <<"Insufficient improvement">>,
              metrics |-> [evaluation_count |-> count, avg_accuracy |-> acc,
                           avg_confidence |-> conf,
                           current_production_accuracy |-> cur_acc]]
        ELSE [promotable |-> TRUE, reasons |-> <<"Model meets all promotion criteria">>,
              metrics |-> IF compare
                          THEN [evaluation_count |-> count, avg_accuracy |-> acc,
                                avg_confidence |-> conf,
                                current_production_accuracy |-> cur_acc,
                                improvement |-> improvement]
                          ELSE m1]

\* the gates of evaluate_model on the candidate's count and averages;
\* compare: a production model with evaluations exists, cur_acc its average
EvaluateGates(count, acc, conf, compare, cur_acc) ==
    LET m0 == [evaluation_count |-> count]
        m1 == [evaluation_count |-> count, avg_accuracy |-> acc, avg_confidence |-> conf]
        improvement == RSub(acc, cur_acc)
    IN  IF count < min_evaluations
        THEN [promotable |-> FALSE, reasons |-> <<"Insufficient evaluations">>, metrics |-> m0]
        ELSE IF RLess(acc, min_accuracy)
        THEN [promotable |-> FALSE, reasons |-> <<"Accuracy too low">>, metrics |-> m1]
        ELSE IF RLess(conf, confidence_threshold)
        THEN [promotable |-> FALSE, reasons |-> <<"Confidence too low">>, metrics |-> m1]
        ELSE IF compare /\ RLess(improvement, improvement_threshold)
        THEN [promotable |-> FALSE, reasons |-> <<"Insufficient improvement">>,
              metrics |-> [evaluation_count |-> count, avg_accuracy |-> acc,
                           avg_confidence |-> conf,
                           current_production_accuracy |-> cur_acc]]
        ELSE [promotable |-> TRUE, reasons |-> <<"Model meets all promotion criteria">>,
              metrics |-> IF compare
                          THEN [evaluation_count |-> count, avg_accuracy |-> acc,
                                avg_confidence |-> conf,
                                current_production_accuracy |-> cur_acc,
                                improvement |-> improvement]
                          ELSE m1]

\* variant of evaluate_model: the candidate is never compared with the
\* production model
evaluate_model_no_compare(m, store) ==
    EvaluateGates(evaluation_count[m], avg_accuracy[m], avg_confidence[m],
                  FALSE, <<0, 1>>)

\* evaluate_model on a stored candidate: the production model it is compared
\* with is the one the store holds at the time of the call
evaluate_model(m, store) ==
    LET prods == ProductionRows(store, document_type(m))
        current == Newest(prods)
        compare == prods # {} /\ evaluation_count[current] > 0
    IN  EvaluateGates(evaluation_count[m], avg_accuracy[m], avg_confidence[m],
                      compare, IF compare THEN avg_accuracy[current] ELSE <<0, 1>>)

\* one ModelEvaluation row
EvaluationRow(matches, fields, score) ==
    [field_matches |-> matches, total_fields |-> fields, confidence_score |-> score]

\* rows a model's evaluations are made of: accuracy 0.9, 0.85, 0.8 and 1.0
\* with confidence 0.85, 0.9, 0.9 and 0.7
RowKinds ==
    {EvaluationRow(18, 20, <<17, 20>>), EvaluationRow(17, 20, <<9, 10>>),
     EvaluationRow(16, 20, <<9, 10>>), EvaluationRow(20, 20, <<7, 10>>)}

\* the last row of a model's evaluations: one of the above, or a row whose
\* confidence_score is null or 0.0, or a row of a document without fields
LastKinds ==
    RowKinds \cup {EvaluationRow(18, 20, NoScore), EvaluationRow(18, 20, <<0, 1>>),
                   EvaluationRow(0, 0, <<9, 10>>)}

\* numbers of evaluations a candidate has
EvaluationCounts == {1, min_evaluations - 1, min_evaluations, min_evaluations + 2}

\* model.evaluations of the candidates evaluate_model is called for
EvaluationLists ==
    {<<>>} \cup {Rep(n - 1, row) \o <<last>> :
                    n \in EvaluationCounts, row \in RowKinds, last \in LastKinds}

\* the production model of the candidate's document type: none, one without
\* evaluations, or one with accuracy 0.8, 0.85 or 0.9
Productions ==
    {[exists |-> FALSE, evaluations |-> <<>>], [exists |-> TRUE, evaluations |-> <<>>]}
    \cup {[exists |-> TRUE, evaluations |-> Rep(min_evaluations, row)] :
             row \in {EvaluationRow(16, 20, <<9, 10>>), EvaluationRow(17, 20, <<9, 10>>),
                      EvaluationRow(18, 20, <<17, 20>>)}}

\* variant of EvaluateRows: without a production model to compare with, the
\* candidate's own accuracy is the baseline
EvaluateRows_own_baseline(evals, production) ==
    LET compare == production.exists /\ Len(production.evaluations) > 0
    IN  EvaluateGates(Len(evals), AvgAccuracy(evals), AvgConfidence(evals), TRUE,
                      IF compare THEN AvgAccuracy(production.evaluations)
                      ELSE AvgAccuracy(evals))

\* evaluate_model on the candidate's evaluation rows and the production
\* model found by the query of lines 72-76
EvaluateRows(evals, production) ==
    LET compare == production.exists /\ Len(production.evaluations) > 0
    IN  EvaluateGates(Len(evals), AvgAccuracy(evals), AvgConfidence(evals), compare,
                      IF compare THEN AvgAccuracy(production.evaluations) ELSE <<0, 1>>)

\* ------------------------------------------------------------------------
\* Initial state: the engine as constructed, the clock at its origin
\* ------------------------------------------------------------------------

Idle == [op |-> "idle", key |-> Nil]

\* placeholder for the `model` local before resolution
NoRow == NewRow(None)

\* an extract request that has not started
ExtIdle ==
    [pc |-> "idle", start_time |-> NoTime, model |-> None, row |-> NoRow,
     handle |-> Nil, inference_time |-> NoTime, error |-> None]

\* a promote request that has not started
PromIdle == [pc |-> "idle", model |-> None, row |-> NoRow]

\* an auto_promote_models run that has not started
AutoIdle == [pc |-> "idle", candidates |-> <<>>, i |-> 0, promotion_results |-> <<>>]

\* the store at start: one production model of type invoice (m1), two
\* candidates of that type (m2 testing, m3 inactive) and one candidate of
\* type form_16 (m4), which has no production model
InitialStore ==
    [m \in ModelIds |->
        CASE m = "m1" -> [NewRow("active") EXCEPT !.is_production = TRUE]
          [] m = "m3" -> NewRow("inactive")
          [] OTHER    -> NewRow("testing")]

\* a batch_extract call that has not started
BatchIdle ==
    [pc |-> "idle", image_paths |-> <<>>, doc_types |-> <<>>, batch_size |-> 0,
     i |-> 0, k |-> 0, batch_results |-> <<>>, results |-> <<>>]

\* no evaluate_model call: nothing passed, nothing returned
NoEvaluation ==
    [pc |-> "idle",
     evaluations |-> <<>>,
     production |-> [exists |-> FALSE, evaluations |-> <<>>],
     result |-> [promotable |-> FALSE, reasons |-> <<>>, metrics |-> <<>>]]

\* no create_challenger_test or get_test_results call has returned
NoReturn == [kind |-> "none"]

\* threads that call the ABTestManager concurrently
Routers == {"r1", "r2", "r3"}

\* a thread that is in no ABTestManager call
RouterIdle == [pc |-> "idle", op |-> "none", i |-> 0, field |-> "none", read |-> 0]

\* no scoring call: nothing passed, nothing returned
NoScoring == [pc |-> "idle"]

\* the engine, the store and the managers as constructed
InitEngine ==
    /\ now = 0
    /\ models = EmptyDict
    /\ access_times = <<>>
    /\ lock = Free
    /\ log_evicted = Nil
    /\ cop = [c \in Callers |-> Idle]
    /\ cret = Nil
    /\ db = InitialStore
    /\ inference_stats = [m \in ModelIds |-> 0]
    /\ ext = [p \in Requests |-> ExtIdle]
    /\ prom = [p \in Promoters |-> PromIdle]
    /\ auto = [a \in AutoRuns |-> AutoIdle]
    /\ active_tests = <<>>
    /\ routed = None
    /\ route_log = <<>>
    /\ returned = NoReturn
    /\ router = [r \in Routers |-> RouterIdle]

Init ==
    /\ InitEngine
    /\ batch = BatchIdle
    /\ evaluated = NoEvaluation
    /\ scored = NoScoring

\* evaluate_model is called for some candidate while some production model,
\* or none, is stored
InitEvaluate ==
    /\ InitEngine
    /\ batch = BatchIdle
    /\ evaluated \in {[NoEvaluation EXCEPT !.pc = "called", !.evaluations = evals,
                                            !.production = production] :
                         evals \in EvaluationLists, production \in Productions}
    /\ scored = NoScoring

\* evaluate_model (model_manager.py:31-99) returns
EvaluateModel ==
    /\ evaluated.pc = "called"
    /\ evaluated' = [evaluated EXCEPT
                       !.pc = "returned",
                       !.result = EvaluateRows(evaluated.evaluations, evaluated.production)]
    /\ UNCHANGED <<now, cacheVars, callerVars, storeVars, engineVars, promoteVars, abVars,
                   batchVars, managerVars, scorerVars>>

NextEvaluate == EvaluateModel

SpecEvaluate == InitEvaluate /\ [][NextEvaluate]_vars

\* the wall clock advances between any two steps, or does not: two
\* successive readings of time.time() may be equal
Tick ==
    /\ now < MaxTime
    /\ now' = now + 1
    /\ UNCHANGED <<cacheVars, callerVars, storeVars, engineVars, promoteVars, abVars,
                   batchVars, criteriaVars, managerVars, scorerVars>>

\* ------------------------------------------------------------------------
\* Direct callers of the ModelCache
\* ------------------------------------------------------------------------

\* `with self.lock:` entered by get_model / put_model / clear
CacheEnter(c, op, key) ==
    /\ cop[c].op = "idle"
    /\ lock = Free
    /\ lock' = c
    /\ cop' = [cop EXCEPT ![c] = [op |-> op, key |-> key]]
    /\ log_evicted' = Nil
    /\ cret' = Nil
    /\ UNCHANGED <<now, models, access_times, storeVars, engineVars, promoteVars, abVars,
                   batchVars, criteriaVars, managerVars, scorerVars>>

\* get_model(key): body and release of the lock
CacheGet(c) ==
    /\ cop[c].op = "get"
    /\ lock = c
    /\ access_times' = get_model_times(models, access_times, cop[c].key, now)
    /\ cret' = get_model_result(models, cop[c].key)
    /\ cop' = [cop EXCEPT ![c] = Idle]
    /\ lock' = Free
    /\ UNCHANGED <<now, models, log_evicted, storeVars, engineVars, promoteVars, abVars,
                   batchVars, criteriaVars, managerVars, scorerVars>>

\* variant of CachePut: a put that would evict a handle an extract call
\* holds waits for that call
CachePut_waits(c) ==
    /\ cop[c].op = "put"
    /\ lock = c
    /\ LET r == put_model(models, access_times, cop[c].key, <<cop[c].key, c>>, now)
       IN  /\ \A p \in Requests :
                 (ext[p].handle # Nil /\ r.evicted # Nil) => CacheKey(ext[p].model) # r.evicted
           /\ models' = r.models
           /\ access_times' = r.access_times
           /\ log_evicted' = r.evicted
    /\ cop' = [cop EXCEPT ![c] = Idle]
    /\ lock' = Free
    /\ UNCHANGED <<now, cret, storeVars, engineVars, promoteVars, abVars,
                   batchVars, criteriaVars, managerVars, scorerVars>>

\* put_model(key, handle): body and release of the lock; the handle is the
\* one this caller loaded for the key
CachePut(c) ==
    /\ cop[c].op = "put"
    /\ lock = c
    /\ LET r == put_model(models, access_times, cop[c].key, <<cop[c].key, c>>, now)
       IN  /\ models' = r.models
           /\ access_times' = r.access_times
           /\ log_evicted' = r.evicted
    /\ cop' = [cop EXCEPT ![c] = Idle]
    /\ lock' = Free
    /\ UNCHANGED <<now, cret, storeVars, engineVars, promoteVars, abVars,
                   batchVars, criteriaVars, managerVars, scorerVars>>

\* clear(): body and release of the lock
CacheClear(c) ==
    /\ cop[c].op = "clear"
    /\ lock = c
    /\ models' = EmptyDict
    /\ access_times' = <<>>
    /\ cop' = [cop EXCEPT ![c] = Idle]
    /\ lock' = Free
    /\ UNCHANGED <<now, log_evicted, cret, storeVars, engineVars, promoteVars, abVars,
                   batchVars, criteriaVars, managerVars, scorerVars>>

NextCache ==
    \/ Tick
    \/ \E c \in Callers, op \in {"get", "put"}, key \in CacheKeys : CacheEnter(c, op, key)
    \/ \E c \in Callers : CacheEnter(c, "clear", Nil)
    \/ \E c \in Callers : CacheGet(c)
    \/ \E c \in Callers : CachePut(c)
    \/ \E c \in Callers : CacheClear(c)

SpecCache == Init /\ [][NextCache]_vars

\* ------------------------------------------------------------------------
\* InferenceEngine.extract (inference_engine.py:177-289)
\* ------------------------------------------------------------------------

\* (doc_type, model_version) pairs requests are made with; "custom" is a
\* document type without a DocumentType row, "v9" a version without a model
ExtractArgs ==
    {<<None, None>>, <<"invoice", None>>, <<"form_16", None>>, <<"custom", None>>,
     <<None, "v1">>, <<None, "v2">>, <<"form_16", "v3">>, <<None, "v9">>}

\* variant of ResolveModel: the document type is consulted before the
\* version
ResolveModel_type_first(store, doc_type, model_version) ==
    IF doc_type # None
    THEN IF doc_type \notin DocTypes
         THEN [model |-> None, error |-> "DoesNotExist"]
         ELSE IF ProductionRows(store, doc_type) = {}
         THEN [model |-> None, error |-> "No active production model found"]
         ELSE [model |-> Newest(ProductionRows(store, doc_type)), error |-> None]
    ELSE IF model_version # None
    THEN LET found == ActiveWithVersion(store, model_version)
         IN  IF found = {} THEN [model |-> None, error |-> "DoesNotExist"]
             ELSE IF Cardinality(found) > 1
             THEN [model |-> None, error |-> "MultipleObjectsReturned"]
             ELSE [model |-> CHOOSE x \in found : TRUE, error |-> None]
    ELSE [model |-> None, error |-> "Either doc_type or model_version must be specified"]

\* the lookup of get_production_model (lines 180-196): the model selected,
\* or the exception raised
ResolveModel(store, doc_type, model_version) ==
    IF model_version # None
    THEN LET found == ActiveWithVersion(store, model_version)
         IN  IF found = {} THEN [model |-> None, error |-> "DoesNotExist"]
             ELSE IF Cardinality(found) > 1
             THEN [model |-> None, error |-> "MultipleObjectsReturned"]
             ELSE [model |-> CHOOSE x \in found : TRUE, error |-> None]
    ELSE IF doc_type # None
    THEN IF doc_type \notin DocTypes
         THEN [model |-> None, error |-> "DoesNotExist"]
         ELSE IF ProductionRows(store, doc_type) = {}
         THEN [model |-> None, error |-> "No active production model found"]
         ELSE [model |-> Newest(ProductionRows(store, doc_type)), error |-> None]
    ELSE [model |-> None, error |-> "Either doc_type or model_version must be specified"]

\* `if model.avg_inference_time:` : neither None nor 0.0
Truthy(avg) == avg # NoAvg /\ avg[1] # 0

\* variant of UsageUpdate: the count is written back without the increment
UsageUpdate_noinc(row, elapsed, t) ==
    [row EXCEPT !.last_used_at = t,
                !.avg_inference_time =
                    IF Truthy(@) THEN RDivInt(RAdd(@, RNorm(elapsed, 1)), 2)
                    ELSE RNorm(elapsed, 1)]

\* lines 254-259: the usage fields of the instance after a successful call
UsageUpdate(row, elapsed, t) ==
    [row EXCEPT !.inference_count = @ + 1,
                !.last_used_at = t,
                !.avg_inference_time =
                    IF Truthy(@) THEN RDivInt(RAdd(@, RNorm(elapsed, 1)), 2)
                    ELSE RNorm(elapsed, 1)]

\* the request has returned (pc "done") or raised (pc "failed"): only the
\* model it resolved and the error remain
Finished(e, pc, error) == [ExtIdle EXCEPT !.pc = pc, !.model = e.model, !.error = error]

\* lines 226, 180-196: extract starts its timer and get_production_model
\* looks the model up; a failed lookup is re-raised to the caller
ExtractResolve(p, doc_type, model_version) ==
    /\ ext[p].pc = "idle"
    /\ LET r == ResolveModel(db, doc_type, model_version)
       IN  ext' = [ext EXCEPT ![p] =
                     IF r.model = None
                     THEN Finished(@, "failed", r.error)
                     ELSE [@ EXCEPT !.pc = "get_lock", !.start_time = now,
                                    !.model = r.model, !.row = db[r.model]]]
    /\ UNCHANGED <<now, cacheVars, callerVars, storeVars, inference_stats, promoteVars, abVars,
                   batchVars, criteriaVars, managerVars, scorerVars>>

\* line 200, get_model: `with self.lock` entered
ExtractGetEnter(p) ==
    /\ ext[p].pc = "get_lock"
    /\ lock = Free
    /\ lock' = p
    /\ log_evicted' = Nil
    /\ ext' = [ext EXCEPT ![p].pc = "get_cs"]
    /\ UNCHANGED <<now, models, access_times, callerVars, storeVars, inference_stats, promoteVars, abVars,
                   batchVars, criteriaVars, managerVars, scorerVars>>

\* variant of ExtractGet: on a miss the lock is kept for the load
ExtractGet_holds(p) ==
    /\ ext[p].pc = "get_cs"
    /\ lock = p
    /\ LET key == CacheKey(ext[p].model)
           hit == get_model_result(models, key)
       IN  /\ access_times' = get_model_times(models, access_times, key, now)
           /\ ext' = [ext EXCEPT ![p] =
                         IF hit = Nil THEN [@ EXCEPT !.pc = "load"]
                         ELSE [@ EXCEPT !.pc = "infer", !.handle = hit]]
           /\ lock' = IF hit = Nil THEN p ELSE Free
    /\ UNCHANGED <<now, models, log_evicted, callerVars, storeVars, inference_stats, promoteVars, abVars,
                   batchVars, criteriaVars, managerVars, scorerVars>>

\* lines 200-202, get_model: body and release of the lock; a hit goes on to
\* inference, a miss to the load
ExtractGet(p) ==
    /\ ext[p].pc = "get_cs"
    /\ lock = p
    /\ LET key == CacheKey(ext[p].model)
           hit == get_model_result(models, key)
       IN  /\ access_times' = get_model_times(models, access_times, key, now)
           /\ ext' = [ext EXCEPT ![p] =
                         IF hit = Nil THEN [@ EXCEPT !.pc = "load"]
                         ELSE [@ EXCEPT !.pc = "infer", !.handle = hit]]
    /\ lock' = Free
    /\ UNCHANGED <<now, models, log_evicted, callerVars, storeVars, inference_stats, promoteVars, abVars,
                   batchVars, criteriaVars, managerVars, scorerVars>>

\* lines 204-205: DonutInference(model_path) builds a new handle, or raises
ExtractLoad(p) ==
    /\ ext[p].pc = "load"
    /\ \/ ext' = [ext EXCEPT ![p].pc = "put_lock",
                             ![p].handle = <<CacheKey(ext[p].model), p>>]
       \/ ext' = [ext EXCEPT ![p] = Finished(@, "failed", "PredictorLoadFailed")]
    /\ UNCHANGED <<now, cacheVars, callerVars, storeVars, inference_stats, promoteVars, abVars,
                   batchVars, criteriaVars, managerVars, scorerVars>>

\* line 208, put_model: `with self.lock` entered
ExtractPutEnter(p) ==
    /\ ext[p].pc = "put_lock"
    /\ lock = Free
    /\ lock' = p
    /\ log_evicted' = Nil
    /\ ext' = [ext EXCEPT ![p].pc = "put_cs"]
    /\ UNCHANGED <<now, models, access_times, callerVars, storeVars, inference_stats, promoteVars, abVars,
                   batchVars, criteriaVars, managerVars, scorerVars>>

\* line 208, put_model: body and release of the lock
ExtractPut(p) ==
    /\ ext[p].pc = "put_cs"
    /\ lock = p
    /\ LET r == put_model(models, access_times, CacheKey(ext[p].model), ext[p].handle, now)
       IN  /\ models' = r.models
           /\ access_times' = r.access_times
           /\ log_evicted' = r.evicted
    /\ lock' = Free
    /\ ext' = [ext EXCEPT ![p].pc = "infer"]
    /\ UNCHANGED <<now, callerVars, storeVars, inference_stats, promoteVars, abVars,
                   batchVars, criteriaVars, managerVars, scorerVars>>

\* variant of ExtractInfer: the statistics are updated before the inference
\* raises
ExtractInfer_stats_first(p) ==
    /\ ext[p].pc = "infer"
    /\ inference_stats' = [inference_stats EXCEPT ![ext[p].model] = @ + 1]
    /\ \/ ext' = [ext EXCEPT ![p].pc = "save",
                             ![p].inference_time = now - ext[p].start_time]
       \/ ext' = [ext EXCEPT ![p] = Finished(@, "failed", "InferenceFailed")]
    /\ UNCHANGED <<now, cacheVars, callerVars, storeVars, promoteVars, abVars,
                   batchVars, criteriaVars, managerVars, scorerVars>>

\* lines 233-251: inference on the handle (which may raise), the elapsed
\* time and _update_model_stats
ExtractInfer(p) ==
    /\ ext[p].pc = "infer"
    /\ \/ /\ ext' = [ext EXCEPT ![p].pc = "save",
                                ![p].inference_time = now - ext[p].start_time]
          /\ inference_stats' = [inference_stats EXCEPT ![ext[p].model] = @ + 1]
       \/ /\ ext' = [ext EXCEPT ![p] = Finished(@, "failed", "InferenceFailed")]
          /\ UNCHANGED inference_stats
    /\ UNCHANGED <<now, cacheVars, callerVars, storeVars, promoteVars, abVars,
                   batchVars, criteriaVars, managerVars, scorerVars>>

\* lines 254-260: the usage fields are set on the instance read at
\* resolution and model.save() writes the whole row
ExtractSave(p) ==
    /\ ext[p].pc = "save"
    /\ db' = Save(db, ext[p].model, UsageUpdate(ext[p].row, ext[p].inference_time, now))
    /\ ext' = [ext EXCEPT ![p] = Finished(@, "done", None)]
    /\ UNCHANGED <<now, cacheVars, callerVars, inference_stats, promoteVars, abVars,
                   batchVars, criteriaVars, managerVars, scorerVars>>

\* ------------------------------------------------------------------------
\* InferenceEngine.batch_extract (inference_engine.py:291-322)
\* ------------------------------------------------------------------------

\* image_paths arguments
BatchPaths == {<<>>, <<"i1">>, <<"i1", "i2">>, <<"i1", "i2", "i3">>}

\* doc_types arguments that are lists, of any length up to three
BatchTypes ==
    UNION {[1..n -> {"invoice", "form_16"}] : n \in 0..3}

\* batch_size arguments
BatchSizes == 1..MaxBatch

Min(a, b) == IF a <= b THEN a ELSE b

\* seq[i:i + n] with the 0-based start i
Slice(seq, i, n) == SubSeq(seq, i + 1, Min(i + n, Len(seq)))

\* zip(batch_paths, batch_types) of the chunk that starts at i
BatchZip(b) ==
    LET batch_paths == Slice(b.image_paths, b.i, b.batch_size)
        batch_types == Slice(b.doc_types, b.i, b.batch_size)
    IN  [j \in 1..Min(Len(batch_paths), Len(batch_types)) |->
            [path |-> batch_paths[j], doc_type |-> batch_types[j]]]

\* what extract returns for a path: the data read from that image by the
\* model that served it
ExtractResult(path, e) ==
    [extracted_data |-> <<"data", path>>, model_id |-> e.model]

\* lines 316-320: the entry appended when extract raised
ErrorEntry(path, doc_type, e) ==
    [error |-> e.error, image_path |-> path, doc_type |-> doc_type]

\* lines 298-301: doc_types defaults to one None per path when it is not
\* given
BatchStart(image_paths, given, doc_types, batch_size) ==
    /\ batch.pc = "idle"
    /\ batch' = [BatchIdle EXCEPT
                   !.pc = "chunk",
                   !.image_paths = image_paths,
                   !.doc_types = IF given THEN doc_types
                                 ELSE [j \in 1..Len(image_paths) |-> None],
                   !.batch_size = batch_size]
    /\ UNCHANGED <<now, cacheVars, callerVars, storeVars, engineVars, promoteVars, abVars,
                   criteriaVars, managerVars, scorerVars>>

\* line 304: for i in range(0, len(image_paths), batch_size); line 322 when
\* the range is exhausted
BatchChunk ==
    /\ batch.pc = "chunk"
    /\ batch' = IF batch.i < Len(batch.image_paths)
                THEN [batch EXCEPT !.pc = "item", !.k = 1, !.batch_results = <<>>]
                ELSE [batch EXCEPT !.pc = "done"]
    /\ UNCHANGED <<now, cacheVars, callerVars, storeVars, engineVars, promoteVars, abVars,
                   criteriaVars, managerVars, scorerVars>>

\* line 309: the next pair of the zip, or, at its end, line 320 and the
\* next chunk
BatchItem ==
    /\ batch.pc = "item"
    /\ batch' = IF batch.k <= Len(BatchZip(batch))
                THEN [batch EXCEPT !.pc = "extract"]
                ELSE [batch EXCEPT !.pc = "chunk",
                                   !.results = @ \o batch.batch_results,
                                   !.i = @ + batch.batch_size]
    /\ UNCHANGED <<now, cacheVars, callerVars, storeVars, engineVars, promoteVars, abVars,
                   criteriaVars, managerVars, scorerVars>>

\* line 311: self.extract(path, doc_type=doc_type) is entered
BatchExtract ==
    /\ batch.pc = "extract"
    /\ ExtractResolve("e1", BatchZip(batch)[batch.k].doc_type, None)

\* lines 312-318: the result, or the error entry, is appended
BatchCollect ==
    /\ batch.pc = "extract"
    /\ ext["e1"].pc \in {"done", "failed"}
    /\ LET pair == BatchZip(batch)[batch.k]
           entry == IF ext["e1"].pc = "done"
                    THEN ExtractResult(pair.path, ext["e1"])
                    ELSE ErrorEntry(pair.path, pair.doc_type, ext["e1"])
       IN  batch' = [batch EXCEPT !.pc = "item", !.k = @ + 1,
                                  !.batch_results = Append(@, entry)]
    /\ ext' = [ext EXCEPT !["e1"] = ExtIdle]
    /\ UNCHANGED <<now, cacheVars, callerVars, storeVars, inference_stats, promoteVars, abVars,
                   criteriaVars, managerVars, scorerVars>>

\* one batch_extract call; its extract calls run in the frame of "e1"
NextBatch ==
    \/ \E image_paths \in BatchPaths, doc_types \in BatchTypes, batch_size \in BatchSizes :
          BatchStart(image_paths, TRUE, doc_types, batch_size)
    \/ \E image_paths \in BatchPaths, batch_size \in BatchSizes :
          BatchStart(image_paths, FALSE, <<>>, batch_size)
    \/ BatchChunk
    \/ BatchItem
    \/ BatchExtract
    \/ ExtractGetEnter("e1")
    \/ ExtractGet("e1")
    \/ ExtractLoad("e1")
    \/ ExtractPutEnter("e1")
    \/ ExtractPut("e1")
    \/ ExtractInfer("e1")
    \/ ExtractSave("e1")
    \/ BatchCollect

SpecBatch == Init /\ [][NextBatch]_vars

\* ------------------------------------------------------------------------
\* TrainedModelViewSet.promote (api/views.py:165-182)
\* ------------------------------------------------------------------------

\* line 168: model = self.get_object()
PromoteGet(p, m) ==
    /\ prom[p].pc = "idle"
    /\ prom' = [prom EXCEPT ![p] = [pc |-> "demote", model |-> m, row |-> db[m]]]
    /\ UNCHANGED <<now, cacheVars, callerVars, storeVars, engineVars, auto, abVars,
                   batchVars, criteriaVars, managerVars, scorerVars>>

\* lines 171-174: the production rows of the type are demoted
PromoteDemote(p) ==
    /\ prom[p].pc = "demote"
    /\ db' = Demote(db, document_type(prom[p].model))
    /\ prom' = [prom EXCEPT ![p].pc = "save"]
    /\ UNCHANGED <<now, cacheVars, callerVars, engineVars, auto, abVars,
                   batchVars, criteriaVars, managerVars, scorerVars>>

\* lines 177-180: the instance is made production and saved
PromoteSave(p) ==
    /\ prom[p].pc = "save"
    /\ db' = Save(db, prom[p].model,
                  [prom[p].row EXCEPT !.is_production = TRUE, !.status = "active"])
    /\ prom' = [prom EXCEPT ![p] = [PromIdle EXCEPT !.pc = "done", !.model = prom[p].model]]
    /\ UNCHANGED <<now, cacheVars, callerVars, engineVars, auto, abVars,
                   batchVars, criteriaVars, managerVars, scorerVars>>

\* ------------------------------------------------------------------------
\* ModelManager.auto_promote_models (model_manager.py:226-283)
\* ------------------------------------------------------------------------

\* a set of rows as the queryset yields them (ordering -created_at)
RECURSIVE NewestFirst(_)
NewestFirst(S) ==
    IF S = {} THEN <<>>
    ELSE LET x == Newest(S) IN <<x>> \o NewestFirst(S \ {x})

\* lines 231-234: the candidate queryset
Candidates(store) ==
    {m \in ModelIds : store[m].status \in {"testing", "inactive"} /\ training_completed(m)}

\* the loop moves to the next candidate, or returns
AutoAdvance(r, outcome) ==
    [r EXCEPT !.promotion_results = Append(@, outcome),
              !.i = @ + 1,
              !.pc = IF r.i + 1 > Len(r.candidates) THEN "done" ELSE "eval"]

\* lines 231-236: the queryset is evaluated when the loop starts
AutoStart(a) ==
    /\ auto[a].pc = "idle"
    /\ LET ids == NewestFirst(Candidates(db))
       IN  auto' = [auto EXCEPT ![a] =
                      [pc |-> IF ids = <<>> THEN "done" ELSE "eval",
                       candidates |-> [k \in DOMAIN ids |-> [id |-> ids[k], row |-> db[ids[k]]]],
                       i |-> 1,
                       promotion_results |-> <<>>]]
    /\ UNCHANGED <<now, cacheVars, callerVars, storeVars, engineVars, prom, abVars,
                   batchVars, criteriaVars, managerVars, scorerVars>>

\* lines 238-240, 265-273: the candidate is evaluated against the store as
\* it is now; a candidate that is not promotable is reported
AutoEvaluate(a) ==
    /\ auto[a].pc = "eval"
    /\ LET cand == auto[a].candidates[auto[a].i]
           evaluation == evaluate_model(cand.id, db)
       IN  auto' = [auto EXCEPT ![a] =
                      IF evaluation.promotable
                      THEN [@ EXCEPT !.pc = "promote"]
                      ELSE AutoAdvance(@, [model_id |-> cand.id, action |-> "not_promoted",
                                           reasons |-> evaluation.reasons])]
    /\ UNCHANGED <<now, cacheVars, callerVars, storeVars, engineVars, prom, abVars,
                   batchVars, criteriaVars, managerVars, scorerVars>>

\* lines 242-261: inside transaction.atomic() the production rows of the
\* type are demoted and the candidate instance is saved as production
AutoPromote(a) ==
    /\ auto[a].pc = "promote"
    /\ LET cand == auto[a].candidates[auto[a].i]
       IN  /\ db' = Save(Demote(db, document_type(cand.id)), cand.id,
                         [cand.row EXCEPT !.is_production = TRUE, !.status = "active",
                                          !.promoted_at = now])
           /\ auto' = [auto EXCEPT ![a] =
                         AutoAdvance(@, [model_id |-> cand.id, action |-> "promoted",
                                         reasons |-> <<>>])]
    /\ UNCHANGED <<now, cacheVars, callerVars, engineVars, prom, abVars,
                   batchVars, criteriaVars, managerVars, scorerVars>>

\* the error outcome appended by the except branch
ErrorOutcome(id) == [model_id |-> id, action |-> "error", reasons |-> <<>>]

\* variant of AutoFail: the exception ends the loop
AutoFail_stops(a) ==
    /\ auto[a].pc \in {"eval", "promote"}
    /\ auto' = [auto EXCEPT ![a] =
                  [AutoAdvance(@, ErrorOutcome(auto[a].candidates[auto[a].i].id))
                     EXCEPT !.pc = "done"]]
    /\ UNCHANGED <<now, cacheVars, callerVars, storeVars, engineVars, prom, abVars,
                   batchVars, criteriaVars, managerVars, scorerVars>>

\* lines 275-281: evaluate_model, or the transaction (which is then rolled
\* back), raised; the error is reported and the loop goes on
AutoFail(a) ==
    /\ auto[a].pc \in {"eval", "promote"}
    /\ auto' = [auto EXCEPT ![a] =
                  AutoAdvance(@, ErrorOutcome(auto[a].candidates[auto[a].i].id))]
    /\ UNCHANGED <<now, cacheVars, callerVars, storeVars, engineVars, prom, abVars,
                   batchVars, criteriaVars, managerVars, scorerVars>>

\* an auto_promote_models run in which queries may fail, running against a
\* promote request
NextAuto ==
    \/ Tick
    \/ \E a \in AutoRuns : AutoStart(a)
    \/ \E a \in AutoRuns : AutoEvaluate(a)
    \/ \E a \in AutoRuns : AutoPromote(a)
    \/ \E a \in AutoRuns : AutoFail(a)
    \/ \E m \in ModelIds : PromoteGet("p1", m)
    \/ PromoteDemote("p1")
    \/ PromoteSave("p1")

SpecAuto == Init /\ [][NextAuto]_vars

\* extract requests running against the periodic promotion task
Next ==
    \/ Tick
    \/ \E p \in Requests, args \in ExtractArgs : ExtractResolve(p, args[1], args[2])
    \/ \E p \in Requests : ExtractGetEnter(p)
    \/ \E p \in Requests : ExtractGet(p)
    \/ \E p \in Requests : ExtractLoad(p)
    \/ \E p \in Requests : ExtractPutEnter(p)
    \/ \E p \in Requests : ExtractPut(p)
    \/ \E p \in Requests : ExtractInfer(p)
    \/ \E p \in Requests : ExtractSave(p)
    \/ \E a \in AutoRuns : AutoStart(a)
    \/ \E a \in AutoRuns : AutoEvaluate(a)
    \/ \E a \in AutoRuns : AutoPromote(a)

Spec == Init /\ [][Next]_vars

\* promote requests running against each other and the periodic promotion
\* task
NextPromote ==
    \/ Tick
    \/ \E p \in Promoters, m \in ModelIds : PromoteGet(p, m)
    \/ \E p \in Promoters : PromoteDemote(p)
    \/ \E p \in Promoters : PromoteSave(p)
    \/ \E a \in AutoRuns : AutoStart(a)
    \/ \E a \in AutoRuns : AutoEvaluate(a)
    \/ \E a \in AutoRuns : AutoPromote(a)

SpecPromote == Init /\ [][NextPromote]_vars

\* ------------------------------------------------------------------------
\* ABTestManager and the A/B test entry points of ModelManager
\* (model_manager.py:102-216, 285-352)
\* ------------------------------------------------------------------------

\* callers of get_model_for_inference: no user id, or one of two users
UserIds == {None, "u1", "u2"}

\* traffic_split values challenger tests are created with
TrafficSplits == {<<1, 2>>}

\* traffic_split values start_ab_test is called with: 0.5 and 0.1
StartSplits == {<<1, 2>>, <<1, 10>>}

\* (model_a, model_b) pairs start_ab_test is called with
StartPairs == {<<"m1", "m2">>, <<"m1", "m3">>}

\* duration_days values tests are started with
Durations == {1}

\* datetime.now() within one second: the parts of a second told apart
SubSeconds == {0, 1}
TicksPerSecond == Cardinality(SubSeconds)

\* the last reading of the clock where tests are left to expire
MaxClock == MaxSeconds * TicksPerSecond - 1

\* timedelta(days=1) in clock readings: a day is scaled down to the
\* shortest span that is a whole number of seconds
TicksPerDay == TicksPerSecond

\* f"ab_test_{model_a.id}_{model_b.id}_{int(datetime.now().timestamp())}":
\* int() drops the part of the reading below one second
TestId(a, b, t) == <<"ab_test_", a, b, t \div TicksPerSecond>>

\* int(hashlib.md5(f"{user_id}_{test_id}".encode()).hexdigest(), 16) % 100:
\* a fixed function of the user and the test id
HashMod100(user_id, test_id) ==
    ((IF user_id = "u1" THEN 17 ELSE 71) + 13 * created_at(test_id[3]) + 29 * test_id[4]) % 100

\* self.active_tests[test_id] = test_config: a known id keeps its place
TestsSet(tests, config) ==
    IF \E i \in DOMAIN tests : tests[i].test_id = config.test_id
    THEN [i \in DOMAIN tests |-> IF tests[i].test_id = config.test_id THEN config ELSE tests[i]]
    ELSE Append(tests, config)

\* start_ab_test (lines 108-135): the test_config stored
NewTest(model_a, model_b, traffic_split, duration_days, t) ==
    [test_id |-> TestId(model_a, model_b, t),
     model_a |-> model_a, model_b |-> model_b,
     traffic_split |-> traffic_split,
     start_time |-> t, end_time |-> t + duration_days * TicksPerDay,
     model_a_requests |-> 0, model_b_requests |-> 0,
     model_a_success |-> 0, model_b_success |-> 0,
     status |-> "active"]

\* the condition of the loop of get_model_for_request (lines 143-145)
Routable(test, doc_type, t) ==
    /\ test.status = "active"
    /\ document_type(test.model_a) = doc_type
    /\ t < test.end_time

\* index of the first test the loop of get_model_for_request stops at, or 0
FirstRoutable(tests, doc_type, t) ==
    IF \E i \in DOMAIN tests : Routable(tests[i], doc_type, t)
    THEN CHOOSE i \in DOMAIN tests :
            /\ Routable(tests[i], doc_type, t)
            /\ \A j \in DOMAIN tests : j < i => ~Routable(tests[j], doc_type, t)
    ELSE 0

\* the log of returned arms after a call routed through the test: the
\* number of times each <<user id, test id, traffic split, model>> occurred
Logged(log, user_id, test, use_model_b) ==
    LET entry == <<user_id, test.test_id, test.traffic_split,
                   IF use_model_b THEN test.model_b ELSE test.model_a>>
    IN  IF user_id = None THEN log
        ELSE IF entry \in DOMAIN log THEN [log EXCEPT ![entry] = @ + 1]
        ELSE log @@ (entry :> 1)

\* the dict create_challenger_test returns for the test it started
ChallengerTest(test, duration_days) ==
    [kind |-> "test",
     test_id |-> test.test_id,
     production_model |-> [id |-> test.model_a, version |-> version(test.model_a)],
     challenger_model |-> [id |-> test.model_b, version |-> version(test.model_b)],
     traffic_split |-> test.traffic_split,
     duration_days |-> duration_days]

\* {'error': message}
ErrorValue(message) == [kind |-> "error", error |-> message]

\* variant of CreateChallengerTest: the challenger's document type is not
\* compared with the requested one
CreateChallengerTest_any_type(doc_type, challenger, traffic_split, duration_days) ==
    /\ Len(active_tests) < MaxTests
    /\ IF doc_type \notin DocTypes
       THEN /\ returned' = ErrorValue("DocumentType matching query does not exist.")
            /\ UNCHANGED active_tests
       ELSE IF ProductionRows(db, doc_type) = {}
       THEN /\ returned' = ErrorValue("No production model found for document type")
            /\ UNCHANGED active_tests
       ELSE IF challenger \notin ModelIds
       THEN /\ returned' = ErrorValue("TrainedModel matching query does not exist.")
            /\ UNCHANGED active_tests
       ELSE LET test == NewTest(Newest(ProductionRows(db, doc_type)), challenger,
                                traffic_split, duration_days, now)
            IN  /\ active_tests' = TestsSet(active_tests, test)
                /\ returned' = ChallengerTest(test, duration_days)
    /\ UNCHANGED <<now, cacheVars, callerVars, storeVars, engineVars, promoteVars, routed, route_log,
                   batchVars, criteriaVars, router, scorerVars>>

\* create_challenger_test (lines 285-336): a test of the production model
\* against the challenger is started, or an error is returned; a lookup
\* that raises ends in the except clause, which returns the message
CreateChallengerTest(doc_type, challenger, traffic_split, duration_days) ==
    /\ Len(active_tests) < MaxTests
    /\ IF doc_type \notin DocTypes
       THEN /\ returned' = ErrorValue("DocumentType matching query does not exist.")
            /\ UNCHANGED active_tests
       ELSE IF ProductionRows(db, doc_type) = {}
       THEN /\ returned' = ErrorValue("No production model found for document type")
            /\ UNCHANGED active_tests
       ELSE IF challenger \notin ModelIds
       THEN /\ returned' = ErrorValue("TrainedModel matching query does not exist.")
            /\ UNCHANGED active_tests
       ELSE IF document_type(challenger) # doc_type
       THEN /\ returned' = ErrorValue("Challenger model document type mismatch")
            /\ UNCHANGED active_tests
       ELSE LET test == NewTest(Newest(ProductionRows(db, doc_type)), challenger,
                                traffic_split, duration_days, now)
            IN  /\ active_tests' = TestsSet(active_tests, test)
                /\ returned' = ChallengerTest(test, duration_days)
    /\ UNCHANGED <<now, cacheVars, callerVars, storeVars, engineVars, promoteVars, routed, route_log,
                   batchVars, criteriaVars, router, scorerVars>>

\* variant of RouteRequest: a user goes to the arm that has served fewer
\* requests
RouteRequest_balanced(doc_type, user_id, use_b, most) ==
    /\ doc_type \in DocTypes
    /\ LET i == FirstRoutable(active_tests, doc_type, now)
       IN  IF i # 0
           THEN LET test == active_tests[i]
                    use_model_b ==
                        IF user_id # None
                        THEN test.model_b_requests < test.model_a_requests
                        ELSE use_b
                IN  /\ test.model_a_requests + test.model_b_requests < most
                    /\ active_tests' =
                         IF use_model_b
                         THEN [active_tests EXCEPT ![i].model_b_requests = @ + 1]
                         ELSE [active_tests EXCEPT ![i].model_a_requests = @ + 1]
                    /\ routed' = IF use_model_b THEN test.model_b ELSE test.model_a
                    /\ route_log' = Logged(route_log, user_id, test, use_model_b)
           ELSE /\ UNCHANGED <<active_tests, route_log>>
                /\ routed' = IF ProductionRows(db, doc_type) = {} THEN None
                             ELSE Newest(ProductionRows(db, doc_type))
    /\ UNCHANGED <<now, cacheVars, callerVars, storeVars, engineVars, promoteVars,
                   batchVars, criteriaVars, managerVars, scorerVars>>

\* variant of RouteRequest: `<=` in place of `<` in the hash test
RouteRequest_le(doc_type, user_id, use_b, most) ==
    /\ doc_type \in DocTypes
    /\ LET i == FirstRoutable(active_tests, doc_type, now)
       IN  IF i # 0
           THEN LET test == active_tests[i]
                    use_model_b ==
                        IF user_id # None
                        THEN HashMod100(user_id, test.test_id) * test.traffic_split[2]
                                <= test.traffic_split[1] * 100
                        ELSE use_b
                IN  /\ test.model_a_requests + test.model_b_requests < most
                    /\ active_tests' =
                         IF use_model_b
                         THEN [active_tests EXCEPT ![i].model_b_requests = @ + 1]
                         ELSE [active_tests EXCEPT ![i].model_a_requests = @ + 1]
                    /\ routed' = IF use_model_b THEN test.model_b ELSE test.model_a
                    /\ route_log' = Logged(route_log, user_id, test, use_model_b)
           ELSE /\ UNCHANGED <<active_tests, route_log>>
                /\ routed' = IF ProductionRows(db, doc_type) = {} THEN None
                             ELSE Newest(ProductionRows(db, doc_type))
    /\ UNCHANGED <<now, cacheVars, callerVars, storeVars, engineVars, promoteVars,
                   batchVars, criteriaVars, managerVars, scorerVars>>

\* get_model_for_request (lines 137-168) while no test has served `most`
\* requests: use_b is the outcome of random.random() < traffic_split, used
\* when there is no user id
RouteRequest(doc_type, user_id, use_b, most) ==
    /\ doc_type \in DocTypes
    /\ LET i == FirstRoutable(active_tests, doc_type, now)
       IN  IF i # 0
           THEN LET test == active_tests[i]
                    use_model_b ==
                        IF user_id # None
                        THEN HashMod100(user_id, test.test_id) * test.traffic_split[2]
                                < test.traffic_split[1] * 100
                        ELSE use_b
                IN  /\ test.model_a_requests + test.model_b_requests < most
                    /\ active_tests' =
                         IF use_model_b
                         THEN [active_tests EXCEPT ![i].model_b_requests = @ + 1]
                         ELSE [active_tests EXCEPT ![i].model_a_requests = @ + 1]
                    /\ routed' = IF use_model_b THEN test.model_b ELSE test.model_a
                    /\ route_log' = Logged(route_log, user_id, test, use_model_b)
           ELSE /\ UNCHANGED <<active_tests, route_log>>
                /\ routed' = IF ProductionRows(db, doc_type) = {} THEN None
                             ELSE Newest(ProductionRows(db, doc_type))
    /\ UNCHANGED <<now, cacheVars, callerVars, storeVars, engineVars, promoteVars,
                   batchVars, criteriaVars, managerVars, scorerVars>>

\* get_model_for_inference (lines 338-340) passes the call on
GetModelForInference(doc_type, user_id, use_b) ==
    RouteRequest(doc_type, user_id, use_b, MaxRoutes)

\* variant of CleanupExpiredTests: a test is completed from its end_time on
CleanupExpiredTests_at_end ==
    /\ active_tests' =
         [i \in DOMAIN active_tests |->
            IF now >= active_tests[i].end_time /\ active_tests[i].status = "active"
            THEN [active_tests[i] EXCEPT !.status = "completed"]
            ELSE active_tests[i]]
    /\ UNCHANGED <<now, cacheVars, callerVars, storeVars, engineVars, promoteVars, routed, route_log,
                   batchVars, criteriaVars, managerVars, scorerVars>>

\* cleanup_expired_tests (lines 342-352)
CleanupExpiredTests ==
    /\ active_tests' =
         [i \in DOMAIN active_tests |->
            IF now > active_tests[i].end_time /\ active_tests[i].status = "active"
            THEN [active_tests[i] EXCEPT !.status = "completed"]
            ELSE active_tests[i]]
    /\ UNCHANGED <<now, cacheVars, callerVars, storeVars, engineVars, promoteVars, routed, route_log,
                   batchVars, criteriaVars, managerVars, scorerVars>>

\* start_ab_test (lines 108-135) called directly
StartABTest(model_a, model_b, traffic_split, duration_days) ==
    /\ LET started == TestsSet(active_tests,
                               NewTest(model_a, model_b, traffic_split, duration_days, now))
       IN  /\ Len(started) <= MaxStarts
           /\ active_tests' = started
    /\ UNCHANGED <<now, cacheVars, callerVars, storeVars, engineVars, promoteVars, routed, route_log,
                   batchVars, criteriaVars, managerVars, scorerVars>>

\* get_model_for_request called directly
GetModelForRequest(doc_type, user_id, use_b) ==
    RouteRequest(doc_type, user_id, use_b, MaxRequests)

\* test ids record_result is called with: those of the tests held, and one
\* that no test has
KnownTestIds == {active_tests[i].test_id : i \in DOMAIN active_tests}
UnknownTestId == TestId("m4", "m4", 0)

\* variant of RecordResult: a failed result is counted like a success
RecordResult_counts_failures(test_id, model_id, success) ==
    /\ IF test_id \in KnownTestIds
       THEN LET i == CHOOSE j \in DOMAIN active_tests : active_tests[j].test_id = test_id
                test == active_tests[i]
            IN  IF test.model_a = model_id
                THEN /\ test.model_a_success < MaxSuccess
                     /\ active_tests' = [active_tests EXCEPT ![i].model_a_success = @ + 1]
                ELSE IF test.model_b = model_id
                THEN /\ test.model_b_success < MaxSuccess
                     /\ active_tests' = [active_tests EXCEPT ![i].model_b_success = @ + 1]
                ELSE UNCHANGED active_tests
       ELSE UNCHANGED active_tests
    /\ UNCHANGED <<now, cacheVars, callerVars, storeVars, engineVars, promoteVars, routed, route_log,
                   batchVars, criteriaVars, managerVars, scorerVars>>

\* record_result (lines 170-180)
RecordResult(test_id, model_id, success) ==
    /\ IF test_id \in KnownTestIds
       THEN LET i == CHOOSE j \in DOMAIN active_tests : active_tests[j].test_id = test_id
                test == active_tests[i]
            IN  IF test.model_a = model_id
                THEN IF success
                     THEN /\ test.model_a_success < MaxSuccess
                          /\ active_tests' = [active_tests EXCEPT ![i].model_a_success = @ + 1]
                     ELSE UNCHANGED active_tests
                ELSE IF test.model_b = model_id
                THEN IF success
                     THEN /\ test.model_b_success < MaxSuccess
                          /\ active_tests' = [active_tests EXCEPT ![i].model_b_success = @ + 1]
                     ELSE UNCHANGED active_tests
                ELSE UNCHANGED active_tests
       ELSE UNCHANGED active_tests
    /\ UNCHANGED <<now, cacheVars, callerVars, storeVars, engineVars, promoteVars, routed, route_log,
                   batchVars, criteriaVars, managerVars, scorerVars>>

\* variant of TestResults: model_a is named the winner when the rates are
\* equal
TestResults_ties_to_a(tests, test_id) ==
    IF \A i \in DOMAIN tests : tests[i].test_id # test_id
    THEN [kind |-> "error", error |-> "Test not found"]
    ELSE LET test == tests[CHOOSE i \in DOMAIN tests : tests[i].test_id = test_id]
             model_a_success_rate == RNorm(test.model_a_success, Max(test.model_a_requests, 1))
             model_b_success_rate == RNorm(test.model_b_success, Max(test.model_b_requests, 1))
         IN  [kind |-> "results",
              test_id |-> test_id,
              status |-> test.status,
              start_time |-> test.start_time,
              end_time |-> test.end_time,
              model_a |-> [id |-> test.model_a, version |-> version(test.model_a),
                           requests |-> test.model_a_requests,
                           successes |-> test.model_a_success,
                           success_rate |-> model_a_success_rate],
              model_b |-> [id |-> test.model_b, version |-> version(test.model_b),
                           requests |-> test.model_b_requests,
                           successes |-> test.model_b_success,
                           success_rate |-> model_b_success_rate],
              winner |-> IF ~RLess(model_a_success_rate, model_b_success_rate)
                         THEN "model_a" ELSE "model_b"]

\* get_test_results (lines 182-216): the dict returned; the rates are exact
\* fractions
TestResults(tests, test_id) ==
    IF \A i \in DOMAIN tests : tests[i].test_id # test_id
    THEN [kind |-> "error", error |-> "Test not found"]
    ELSE LET test == tests[CHOOSE i \in DOMAIN tests : tests[i].test_id = test_id]
             model_a_success_rate == RNorm(test.model_a_success, Max(test.model_a_requests, 1))
             model_b_success_rate == RNorm(test.model_b_success, Max(test.model_b_requests, 1))
         IN  [kind |-> "results",
              test_id |-> test_id,
              status |-> test.status,
              start_time |-> test.start_time,
              end_time |-> test.end_time,
              model_a |-> [id |-> test.model_a, version |-> version(test.model_a),
                           requests |-> test.model_a_requests,
                           successes |-> test.model_a_success,
                           success_rate |-> model_a_success_rate],
              model_b |-> [id |-> test.model_b, version |-> version(test.model_b),
                           requests |-> test.model_b_requests,
                           successes |-> test.model_b_success,
                           success_rate |-> model_b_success_rate],
              winner |-> IF RLess(model_b_success_rate, model_a_success_rate)
                         THEN "model_a" ELSE "model_b"]

\* get_test_results called directly
GetTestResults(test_id) ==
    /\ returned' = TestResults(active_tests, test_id)
    /\ UNCHANGED <<now, cacheVars, callerVars, storeVars, engineVars, promoteVars, abVars,
                   batchVars, criteriaVars, router, scorerVars>>

\* one test is started, routed through by requests without a user id, has
\* results recorded for it, and its results are read
NextResults ==
    \/ \E ts \in TrafficSplits, d \in Durations :
          /\ active_tests = <<>>
          /\ StartABTest("m1", "m2", ts, d)
    \/ \E b \in BOOLEAN : GetModelForRequest("invoice", None, b)
    \/ \E id \in KnownTestIds, m \in {"m1", "m2", "m3"} : RecordResult(id, m, TRUE)
    \/ \E id \in KnownTestIds \cup {UnknownTestId} : GetTestResults(id)

SpecResults == Init /\ [][NextResults]_vars

\* direct calls of the ABTestManager by several users within one clock
\* second; every start is one of a test that is not held yet
NextRoute ==
    \/ \E pair \in StartPairs, ts \in StartSplits, d \in Durations :
          /\ TestId(pair[1], pair[2], now) \notin KnownTestIds
          /\ StartABTest(pair[1], pair[2], ts, d)
    \/ \E dt \in DocTypes, u \in UserIds \ {None} : GetModelForRequest(dt, u, FALSE)
    \/ \E id \in KnownTestIds \cup {UnknownTestId}, m \in ModelIds, ok \in BOOLEAN :
          RecordResult(id, m, ok)

SpecRoute == Init /\ [][NextRoute]_vars

\* the wall clock where tests are left to expire
TickTests ==
    /\ now < MaxClock
    /\ now' = now + 1
    /\ UNCHANGED <<cacheVars, callerVars, storeVars, engineVars, promoteVars, abVars,
                   batchVars, criteriaVars, managerVars, scorerVars>>

\* one extract request running while A/B tests are started, routed through
\* and expired
NextAB ==
    \/ TickTests
    \/ \E dt \in DocTypes, m \in ModelIds, ts \in TrafficSplits, d \in Durations :
          CreateChallengerTest(dt, m, ts, d)
    \/ \E dt \in DocTypes, u \in UserIds, b \in BOOLEAN : GetModelForInference(dt, u, b)
    \/ CleanupExpiredTests
    \/ \E args \in ExtractArgs : ExtractResolve("e1", args[1], args[2])
    \/ ExtractGetEnter("e1")
    \/ ExtractGet("e1")
    \/ ExtractLoad("e1")
    \/ ExtractPutEnter("e1")
    \/ ExtractPut("e1")
    \/ ExtractInfer("e1")
    \/ ExtractSave("e1")

SpecAB == Init /\ [][NextAB]_vars

\* as many tests as there are pairs are started, also again within the second
\* of an earlier start, routed through by requests without a user id, and
\* left to expire
NextTests ==
    \/ TickTests
    \/ \E pair \in StartPairs, ts \in TrafficSplits, d \in Durations :
          /\ \/ Len(active_tests) < Cardinality(StartPairs)
             \/ TestId(pair[1], pair[2], now) \in KnownTestIds
          /\ StartABTest(pair[1], pair[2], ts, d)
    \/ \E dt \in DocTypes, b \in BOOLEAN : GetModelForInference(dt, None, b)
    \/ CleanupExpiredTests

SpecTests == Init /\ [][NextTests]_vars

\* document types and model ids create_challenger_test is called with: the
\* known ones, and one of each that is not stored
ChallengerTypes == DocTypes \cup {"receipt"}
ChallengerIds == ModelIds \cup {"m9"}

\* challenger tests are created and routed through while a promote request
\* changes the production model and the clock advances
NextChallenger ==
    \/ TickTests
    \/ \E dt \in ChallengerTypes, m \in ChallengerIds, ts \in StartSplits, d \in Durations :
          CreateChallengerTest(dt, m, ts, d)
    \/ \E m \in ModelIds : PromoteGet("p1", m)
    \/ PromoteDemote("p1")
    \/ PromoteSave("p1")

SpecChallenger == Init /\ [][NextChallenger]_vars

\* get_model_for_request in one of several threads, up to the load of the
\* counter in `test_config[...] += 1` (lines 142-161): nothing holds a lock
RouteBegin(r, doc_type, use_b) ==
    /\ router[r].pc = "idle"
    /\ LET i == FirstRoutable(active_tests, doc_type, now)
           field == IF use_b THEN "model_b_requests" ELSE "model_a_requests"
       IN  /\ i # 0
           /\ router' = [router EXCEPT ![r] = [pc |-> "store", op |-> "route", i |-> i,
                                               field |-> field,
                                               read |-> active_tests[i][field]]]
    /\ UNCHANGED <<now, cacheVars, callerVars, storeVars, engineVars, promoteVars, abVars,
                   batchVars, criteriaVars, returned, scorerVars>>

\* the store of `+= 1` and the return of the arm
RouteEnd(r) ==
    /\ router[r].pc = "store"
    /\ router[r].op = "route"
    /\ active_tests' = [active_tests EXCEPT ![router[r].i][router[r].field] = router[r].read + 1]
    /\ routed' = IF router[r].field = "model_b_requests"
                 THEN active_tests[router[r].i].model_b
                 ELSE active_tests[router[r].i].model_a
    /\ router' = [router EXCEPT ![r].pc = "done"]
    /\ UNCHANGED <<now, cacheVars, callerVars, storeVars, engineVars, promoteVars, route_log,
                   batchVars, criteriaVars, returned, scorerVars>>

\* record_result(test_id, model_id, True) in one of several threads, up to
\* the load of the counter in `test_config[...] += 1` (lines 170-180)
RecordBegin(r, test_id, model_id) ==
    /\ router[r].pc = "idle"
    /\ test_id \in KnownTestIds
    /\ LET i == CHOOSE j \in DOMAIN active_tests : active_tests[j].test_id = test_id
           test == active_tests[i]
           field == IF test.model_a = model_id THEN "model_a_success" ELSE "model_b_success"
       IN  /\ model_id \in {test.model_a, test.model_b}
           /\ router' = [router EXCEPT ![r] = [pc |-> "store", op |-> "record", i |-> i,
                                               field |-> field,
                                               read |-> test[field]]]
    /\ UNCHANGED <<now, cacheVars, callerVars, storeVars, engineVars, promoteVars, abVars,
                   batchVars, criteriaVars, returned, scorerVars>>

\* the store of `+= 1` in record_result
RecordEnd(r) ==
    /\ router[r].pc = "store"
    /\ router[r].op = "record"
    /\ active_tests' = [active_tests EXCEPT ![router[r].i][router[r].field] = router[r].read + 1]
    /\ router' = [router EXCEPT ![r].pc = "done"]
    /\ UNCHANGED <<now, cacheVars, callerVars, storeVars, engineVars, promoteVars, routed, route_log,
                   batchVars, criteriaVars, returned, scorerVars>>

\* one test is started; each thread then makes one call that is routed
\* through it or records a success for it
NextRace ==
    \/ \E ts \in TrafficSplits, d \in Durations :
          /\ active_tests = <<>>
          /\ StartABTest("m1", "m2", ts, d)
    \/ \E r \in Routers, b \in BOOLEAN : RouteBegin(r, "invoice", b)
    \/ \E r \in Routers : RouteEnd(r)
    \/ \E r \in Routers, id \in KnownTestIds, m \in {"m1", "m2"} : RecordBegin(r, id, m)
    \/ \E r \in Routers : RecordEnd(r)

SpecRace == Init /\ [][NextRace]_vars

\* ------------------------------------------------------------------------
\* ConfidenceCalculator._validate_field and the scoring and validation of
\* an extraction result (inference_engine.py:99-143, 157-175, 244-269,
\* 324-380). Texts are sequences of characters; scores are in tenths.
\* ------------------------------------------------------------------------

Upper == {"A", "B", "C", "D", "E", "F", "G", "H", "I", "J", "K", "L", "M", "N", "O", "P", "Q", "R", "S", "T", "U", "V", "W", "X", "Y", "Z"}
Digit == {"0", "1", "2", "3", "4", "5", "6", "7", "8", "9"}
Alnum == Upper \cup Digit

\* a piece of a regular expression: a character class repeated lo to hi
\* times; a pattern is `^` pieces `$`
Piece(class, lo, hi) == [class |-> class, lo |-> lo, hi |-> hi]

\* rule.get('pattern') of a rule without one
NoPattern == <<>>

\* r'^[A-Z]{5}[0-9]{4}[A-Z]{1}$'
PanPattern == <<Piece(Upper, 5, 5), Piece(Digit, 4, 4), Piece(Upper, 1, 1)>>

\* rule.get('max_length', float('inf')) of a rule without max_length
NoMax == -1

\* a rule dict as its readers see it: rule.get('type', 'string'),
\* rule.get('pattern'), rule.get('min_length', 0),
\* rule.get('max_length', float('inf')), rule.get('required', False)
Rule(type, pattern, min_length, max_length, required) ==
    [type |-> type, pattern |-> pattern, min_length |-> min_length,
     max_length |-> max_length, required |-> required]

\* _load_validation_rules (lines 157-175) and
\* self.validation_rules.get(doc_type, {}): the rules in dict order. The
\* patterns are r'^[0-9]{10,20}$' (account_number),
\* r'^[A-Z]{4}0[A-Z0-9]{6}$' (ifsc),
\* r'^[0-9]{2}[A-Z]{5}[0-9]{4}[A-Z]{1}[1-9A-Z]{1}Z[0-9A-Z]{1}$' (gstin),
\* r'^[A-Z]{5}[0-9]{4}[A-Z]{1}$' (pan), r'^[A-Z]{4}[0-9]{5}[A-Z]{1}$' (tan)
validation_rules(doc_type) ==
    CASE doc_type = "bank_statement" ->
           <<[field |-> "account_number", rule |-> Rule("string", <<Piece(Digit, 10, 20)>>, 0, NoMax, FALSE)],
             [field |-> "ifsc", rule |-> Rule("string", <<Piece(Upper, 4, 4), Piece({"0"}, 1, 1), Piece(Alnum, 6, 6)>>, 0, NoMax, FALSE)],
             [field |-> "transactions", rule |-> Rule("array", NoPattern, 1, NoMax, FALSE)]>>
      [] doc_type = "invoice" ->
           <<[field |-> "invoice_no", rule |-> Rule("string", NoPattern, 3, NoMax, FALSE)],
             [field |-> "gstin", rule |-> Rule("string", <<Piece(Digit, 2, 2), Piece(Upper, 5, 5), Piece(Digit, 4, 4), Piece(Upper, 1, 1), Piece(Alnum \ {"0"}, 1, 1), Piece({"Z"}, 1, 1), Piece(Alnum, 1, 1)>>, 0, NoMax, FALSE)],
             [field |-> "grand_total", rule |-> Rule("number", NoPattern, 0, NoMax, FALSE)]>>
      [] doc_type = "form_16" ->
           <<[field |-> "pan", rule |-> Rule("string", PanPattern, 0, NoMax, FALSE)],
             [field |-> "tan", rule |-> Rule("string", <<Piece(Upper, 4, 4), Piece(Digit, 5, 5), Piece(Upper, 1, 1)>>, 0, NoMax, FALSE)],
             [field |-> "gross_salary", rule |-> Rule("number", NoPattern, 0, NoMax, FALSE)]>>
      [] OTHER -> <<>>

\* `field in validation_rules` and validation_rules[field]
HasRule(rules, field) == \E k \in DOMAIN rules : rules[k].field = field
RuleOf(rules, field) == rules[CHOOSE k \in DOMAIN rules : rules[k].field = field].rule

\* values of a parsed JSON document: null, a string, a non-negative integer
JsonNull == [kind |-> "null", chars |-> <<>>, n |-> 0]
Text(chars) == [kind |-> "str", chars |-> chars, n |-> 0]
Number(n) == [kind |-> "int", chars |-> <<>>, n |-> n]

\* bool(value)
IsTrue(value) ==
    CASE value.kind = "null" -> FALSE
      [] value.kind = "str" -> value.chars # <<>>
      [] OTHER -> value.n # 0

\* str(n) of a non-negative integer
RECURSIVE Decimal(_)
Decimal(n) ==
    LET d == <<"0", "1", "2", "3", "4", "5", "6", "7", "8", "9">>
    IN  IF n < 10 THEN <<d[n + 1]>> ELSE Decimal(n \div 10) \o <<d[(n % 10) + 1]>>

\* str(value)
Str(value) ==
    CASE value.kind = "null" -> <<"N", "o", "n", "e">>
      [] value.kind = "str" -> value.chars
      [] OTHER -> Decimal(value.n)

\* float(text) does not raise: an optional sign, digits with at most one
\* point, at least one digit (exponents, inf, nan and blanks do not occur
\* in the texts drawn)
FloatParses(text) ==
    LET body == IF text # <<>> /\ text[1] \in {"+", "-"} THEN Tail(text) ELSE text
    IN  /\ \A i \in DOMAIN body : body[i] \in Digit \cup {"."}
        /\ Cardinality({i \in DOMAIN body : body[i] = "."}) <= 1
        /\ \E i \in DOMAIN body : body[i] \in Digit

\* re.match(pattern, text) finds a match, from piece k and position pos on
RECURSIVE MatchFrom(_, _, _, _)
MatchFrom(pattern, k, text, pos) ==
    IF k > Len(pattern) THEN pos = Len(text) + 1
    ELSE \E n \in pattern[k].lo .. pattern[k].hi :
            /\ pos + n - 1 <= Len(text)
            /\ \A i \in pos .. (pos + n - 1) : text[i] \in pattern[k].class
            /\ MatchFrom(pattern, k + 1, text, pos + n)

Matches(pattern, text) == MatchFrom(pattern, 1, text, 1)

\* dateutil.parser.parse(text) does not raise: of the texts drawn for date
\* rules it accepts the one of the form dddd-dd-dd
DateParses(text) ==
    Matches(<<Piece(Digit, 4, 4), Piece({"-"}, 1, 1), Piece(Digit, 2, 2),
              Piece({"-"}, 1, 1), Piece(Digit, 2, 2)>>, text)

\* min_length <= value_length <= max_length
InLength(n, rule) ==
    /\ rule.min_length <= n
    /\ rule.max_length = NoMax \/ n <= rule.max_length

\* ConfidenceCalculator._validate_field (lines 99-143), in tenths
validate_field(value, rule) ==
    IF ~IsTrue(value) THEN 2
    ELSE LET text == Str(value)
             typed == IF rule.type = "number"
                      THEN IF FloatParses(text) THEN 2 ELSE -3
                      ELSE IF rule.type = "date"
                      THEN IF DateParses(text) THEN 2 ELSE -3
                      ELSE 0
             patterned == IF rule.pattern # NoPattern
                          THEN IF Matches(rule.pattern, text) THEN 2 ELSE -2
                          ELSE 0
             sized == IF InLength(Len(text), rule) THEN 1 ELSE -2
         IN  Max(0, Min(10, 5 + typed + patterned + sized))

\* an extraction result: a dict of fields, or something that is no dict
Dict(fields) == [is_dict |-> TRUE, fields |-> fields]
NoDict == [is_dict |-> FALSE, fields |-> <<>>]

\* _calculate_confidence (lines 324-345): field -> score in tenths
calculate_confidence(extracted_data, doc_type) ==
    IF ~extracted_data.is_dict THEN <<>>
    ELSE LET rules == validation_rules(doc_type)
         IN  [field \in DOMAIN extracted_data.fields |->
                IF HasRule(rules, field)
                THEN validate_field(extracted_data.fields[field], RuleOf(rules, field))
                ELSE IF IsTrue(extracted_data.fields[field]) THEN 7 ELSE 3]

\* the sum of the values of a dict of scores
RECURSIVE SumOver(_, _)
SumOver(scores, fields) ==
    IF fields = {} THEN 0
    ELSE LET f == CHOOSE g \in fields : TRUE
         IN  scores[f] + SumOver(scores, fields \ {f})

\* np.mean(list(confidence_scores.values())) if confidence_scores else 0.5
\* (extract, line 244), as an exact fraction
overall_confidence(confidence_scores) ==
    IF DOMAIN confidence_scores = {} THEN <<1, 2>>
    ELSE RNorm(SumOver(confidence_scores, DOMAIN confidence_scores),
               10 * Cardinality(DOMAIN confidence_scores))

\* the 'confidence' entry of the result of extract (lines 264-268)
ConfidenceEntry(extracted_data, doc_type, threshold) ==
    LET confidence_scores == calculate_confidence(extracted_data, doc_type)
        overall == overall_confidence(confidence_scores)
    IN  [overall |-> overall,
         field_scores |-> confidence_scores,
         threshold_met |-> ~RLess(overall, threshold)]

\* the error strings of _validate_output, by kind and field
OutputError(kind, field) == [error |-> kind, field |-> field]

\* one pass of the loop of _validate_output (lines 358-378)
FieldErrors(extracted_data, entry) ==
    IF entry.field \notin DOMAIN extracted_data.fields
    THEN IF entry.rule.required
         THEN <<OutputError("Required field is missing", entry.field)>>
         ELSE <<>>
    ELSE LET value == extracted_data.fields[entry.field]
         IN  (IF entry.rule.type = "number" /\ ~FloatParses(Str(value))
              THEN <<OutputError("should be a number", entry.field)>>
              ELSE <<>>)
             \o
             (IF /\ entry.rule.pattern # NoPattern
                 /\ IsTrue(value)
                 /\ ~Matches(entry.rule.pattern, Str(value))
              THEN <<OutputError("format is invalid", entry.field)>>
              ELSE <<>>)

\* the errors of the rules from the k-th on
RECURSIVE ErrorsFrom(_, _, _)
ErrorsFrom(extracted_data, rules, k) ==
    IF k > Len(rules) THEN <<>>
    ELSE FieldErrors(extracted_data, rules[k]) \o ErrorsFrom(extracted_data, rules, k + 1)

\* _validate_output (lines 347-380)
validate_output(extracted_data, doc_type) ==
    IF ~extracted_data.is_dict
    THEN <<OutputError("Invalid output format: expected dictionary", "")>>
    ELSE ErrorsFrom(extracted_data, validation_rules(doc_type), 1)

\* texts that occur as values: "INV-001", "ABCDE1234F", "12.50"
InvoiceNoText == <<"I", "N", "V", "-", "0", "0", "1">>
PanText == <<"A", "B", "C", "D", "E", "1", "2", "3", "4", "F">>
AmountText == <<"1", "2", ".", "5", "0">>

\* values _validate_field is called with, "2024-01-31" and "AB" among them
Values ==
    {JsonNull, Text(<<>>), Text(InvoiceNoText), Text(PanText), Text(AmountText),
     Text(<<"2", "0", "2", "4", "-", "0", "1", "-", "3", "1">>), Text(<<"A", "B">>), Number(0), Number(125)}

\* values a date rule is applied to: null, and the strings that are no
\* number
DateValues == {v \in Values : v.kind # "int" /\ v.chars # AmountText}

\* rules _validate_field is called with: rules of the table of the engine,
\* and rules with a type, a pattern and length limits together
FieldRules ==
    {Rule("string", NoPattern, 3, NoMax, FALSE),
     Rule("string", PanPattern, 0, NoMax, FALSE),
     Rule("number", NoPattern, 0, NoMax, FALSE),
     Rule("number", PanPattern, 20, NoMax, FALSE),
     Rule("number", NoPattern, 0, 4, FALSE),
     Rule("string", PanPattern, 10, 10, FALSE),
     Rule("date", NoPattern, 0, NoMax, FALSE),
     Rule("date", PanPattern, 0, 5, FALSE)}

\* fields of extraction results, the last one without a rule in any type
DataFields == {"pan", "grand_total", "notes"}

\* values of the fields of extraction results
DataValues == {Text(<<>>), Text(PanText), Text(InvoiceNoText), Text(AmountText), Number(0)}

\* extraction results: every dict of some of the fields, and a result that
\* is no dict
ExtractedData ==
    {NoDict} \cup
    UNION {{Dict(fields) : fields \in [present -> DataValues]} : present \in SUBSET DataFields}

\* document types results are scored for: two with rules, one without
ScoredTypes == {"invoice", "form_16", "receipt"}

\* confidence_threshold values extract is called with: 0.5 and 0.7
Thresholds == {<<1, 2>>, <<7, 10>>}

\* a scoring call with its arguments, before it returns
ScoringCall(call, value, rule, extracted_data, doc_type, threshold) ==
    [pc |-> "called", call |-> call, value |-> value, rule |-> rule,
     extracted_data |-> extracted_data, doc_type |-> doc_type, threshold |-> threshold,
     score |-> 0,
     confidence |-> [overall |-> <<1, 2>>, field_scores |-> <<>>, threshold_met |-> FALSE],
     errors |-> <<>>]

ScoringCalls ==
    {ScoringCall("validate_field", v, r, NoDict, "", <<1, 2>>) :
        v \in Values, r \in {q \in FieldRules : q.type # "date"}}
    \cup
    {ScoringCall("validate_field", v, r, NoDict, "", <<1, 2>>) :
        v \in DateValues, r \in {q \in FieldRules : q.type = "date"}}
    \cup
    {ScoringCall("extract", JsonNull, Rule("string", NoPattern, 0, NoMax, FALSE), d, dt, th) :
        d \in ExtractedData, dt \in ScoredTypes, th \in Thresholds}
    \cup
    {ScoringCall("validate_output", JsonNull, Rule("string", NoPattern, 0, NoMax, FALSE),
                 d, dt, <<1, 2>>) :
        d \in ExtractedData, dt \in ScoredTypes}

\* one scoring call is about to be made
InitScore ==
    /\ InitEngine
    /\ batch = BatchIdle
    /\ evaluated = NoEvaluation
    /\ scored \in ScoringCalls

\* _validate_field returns
ValidateField ==
    /\ scored.pc = "called"
    /\ scored.call = "validate_field"
    /\ scored' = [scored EXCEPT !.pc = "returned",
                                !.score = validate_field(scored.value, scored.rule)]
    /\ UNCHANGED <<now, cacheVars, callerVars, storeVars, engineVars, promoteVars, abVars,
                   batchVars, criteriaVars, managerVars>>

\* extract scores the result of the predictor (lines 239-245, 264-268)
ScoreResult ==
    /\ scored.pc = "called"
    /\ scored.call = "extract"
    /\ scored' = [scored EXCEPT !.pc = "returned",
                                !.confidence = ConfidenceEntry(scored.extracted_data,
                                                               scored.doc_type,
                                                               scored.threshold)]
    /\ UNCHANGED <<now, cacheVars, callerVars, storeVars, engineVars, promoteVars, abVars,
                   batchVars, criteriaVars, managerVars>>

\* _validate_output returns
ValidateOutput ==
    /\ scored.pc = "called"
    /\ scored.call = "validate_output"
    /\ scored' = [scored EXCEPT !.pc = "returned",
                                !.errors = validate_output(scored.extracted_data,
                                                           scored.doc_type)]
    /\ UNCHANGED <<now, cacheVars, callerVars, storeVars, engineVars, promoteVars, abVars,
                   batchVars, criteriaVars, managerVars>>

NextScore == ValidateField \/ ScoreResult \/ ValidateOutput

SpecScore == InitScore /\ [][NextScore]_vars

\* ------------------------------------------------------------------------
\* Model health (model_manager.py:354-382, tasks.py:345-389)
\* ------------------------------------------------------------------------

\* DocumentType.objects.all(), in the order it is iterated
DocumentTypes == <<"invoice", "form_16">>

\* get_model_health (model_manager.py:354-382)
get_model_health(store, tests) ==
    [overall_status |->
        IF \E k \in DOMAIN DocumentTypes : ProductionRows(store, DocumentTypes[k]) = {}
        THEN "degraded" ELSE "healthy",
     document_types |->
        [dt \in DocTypes |->
            LET rows == ProductionRows(store, dt)
            IN  IF rows = {}
                THEN [has_production_model |-> FALSE, model_version |-> None,
                      last_inference |-> NoTime, inference_count |-> 0]
                ELSE [has_production_model |-> TRUE,
                      model_version |-> version(Newest(rows)),
                      last_inference |-> store[Newest(rows)].last_used_at,
                      inference_count |-> store[Newest(rows)].inference_count]],
     total_models |-> Cardinality(ModelIds),
     production_models |-> Cardinality({m \in ModelIds : store[m].is_production}),
     active_ab_tests |-> Cardinality({i \in DOMAIN tests : tests[i].status = "active"})]

\* an entry of the issues list of monitor_model_health
Issue(kind, doc_type) == [issue |-> kind, doc_type |-> doc_type]

\* the issues appended for the document types from the k-th on
\* (tasks.py:360-369); timedelta(hours=24) is one day of the clock
RECURSIVE TypeIssues(_, _, _)
TypeIssues(health, t, k) ==
    IF k > Len(DocumentTypes) THEN <<>>
    ELSE LET dt == DocumentTypes[k]
             status == health.document_types[dt]
         IN  (IF ~status.has_production_model
              THEN <<Issue("No production model", dt)>> ELSE <<>>)
             \o
             (IF status.last_inference # NoTime /\ t - status.last_inference > TicksPerDay
              THEN <<Issue("hasn't been used in 24+ hours", dt)>> ELSE <<>>)
             \o TypeIssues(health, t, k + 1)

\* monitor_model_health (tasks.py:345-389). `from datetime import datetime,
\* timedelta` stands inside `if status['last_inference']:`, which makes
\* datetime a local name of the function: when no document type has a
\* last_inference the name is unbound at `datetime.now().isoformat()`
\* (line 378, after cleanup_expired_tests) and the except clause returns an
\* error
MonitorModelHealth ==
    /\ LET health == get_model_health(db, active_tests)
           issues == (IF health.overall_status # "healthy"
                      THEN <<Issue("Overall status is", health.overall_status)>> ELSE <<>>)
                     \o TypeIssues(health, now, 1)
       IN  returned' =
              IF \E dt \in DocTypes : health.document_types[dt].last_inference # NoTime
              THEN [kind |-> "health", status |-> "success",
                    health_status |-> health, issues |-> issues, timestamp |-> now]
              ELSE ErrorValue("cannot access local variable 'datetime'")
    /\ active_tests' =
         [i \in DOMAIN active_tests |->
            IF now > active_tests[i].end_time /\ active_tests[i].status = "active"
            THEN [active_tests[i] EXCEPT !.status = "completed"]
            ELSE active_tests[i]]
    /\ UNCHANGED <<now, cacheVars, callerVars, storeVars, engineVars, promoteVars, routed, route_log,
                   batchVars, criteriaVars, router, scorerVars>>

\* the health task runs while an extract request uses a model, a promote
\* request changes the production model and the clock advances
NextHealth ==
    \/ TickTests
    \/ MonitorModelHealth
    \/ \E args \in ExtractArgs : ExtractResolve("e1", args[1], args[2])
    \/ ExtractGetEnter("e1")
    \/ ExtractGet("e1")
    \/ ExtractLoad("e1")
    \/ ExtractPutEnter("e1")
    \/ ExtractPut("e1")
    \/ ExtractInfer("e1")
    \/ ExtractSave("e1")
    \/ \E m \in ModelIds : PromoteGet("p1", m)
    \/ PromoteDemote("p1")
    \/ PromoteSave("p1")

SpecHealth == Init /\ [][NextHealth]_vars

\* the run has returned and the periodic task calls auto_promote_models
\* again
AutoAgain(a) ==
    /\ auto[a].pc = "done"
    /\ auto' = [auto EXCEPT ![a] = AutoIdle]
    /\ UNCHANGED <<now, cacheVars, callerVars, storeVars, engineVars, prom, abVars,
                   batchVars, criteriaVars, managerVars, scorerVars>>

\* auto_promote_models run after run by the periodic task, nothing else
\* writing the table
NextRuns ==
    \/ Tick
    \/ AutoStart("a1")
    \/ AutoEvaluate("a1")
    \/ AutoPromote("a1")
    \/ AutoFail("a1")
    \/ AutoAgain("a1")

\* a run is never left standing and the periodic task keeps calling
SpecRuns == Init /\ [][NextRuns]_vars /\ WF_vars(NextRuns)

\* the three writers of the TrainedModel table side by side: an extract
\* call, an auto_promote_models run and a promote request
NextStore ==
    \/ Tick
    \/ \E args \in ExtractArgs : ExtractResolve("e1", args[1], args[2])
    \/ ExtractGetEnter("e1")
    \/ ExtractGet("e1")
    \/ ExtractLoad("e1")
    \/ ExtractPutEnter("e1")
    \/ ExtractPut("e1")
    \/ ExtractInfer("e1")
    \/ ExtractSave("e1")
    \/ AutoStart("a1")
    \/ AutoEvaluate("a1")
    \/ AutoPromote("a1")
    \/ AutoFail("a1")
    \/ \E m \in ModelIds : PromoteGet("p1", m)
    \/ PromoteDemote("p1")
    \/ PromoteSave("p1")

SpecStore == Init /\ [][NextStore]_vars

\* ------------------------------------------------------------------------
\* extract calls sharing the ModelCache with a direct caller
\* (inference_engine.py:44-63, 198-236)
\* ------------------------------------------------------------------------

\* the handle an extract call holds is the object the cache holds: one
\* extract call runs while another user of the engine's cache puts handles
\* and clears the cache
TickShared ==
    /\ now < MaxSharedTime
    /\ now' = now + 1
    /\ UNCHANGED <<cacheVars, callerVars, storeVars, engineVars, promoteVars, abVars,
                   batchVars, criteriaVars, managerVars, scorerVars>>

NextShared ==
    \/ TickShared
    \/ \E args \in ExtractArgs : ExtractResolve("e1", args[1], args[2])
    \/ ExtractGetEnter("e1")
    \/ ExtractGet("e1")
    \/ ExtractLoad("e1")
    \/ ExtractPutEnter("e1")
    \/ ExtractPut("e1")
    \/ ExtractInfer("e1")
    \/ ExtractSave("e1")
    \/ \E key \in CacheKeys : CacheEnter("c1", "put", key)
    \/ CacheEnter("c1", "clear", Nil)
    \/ CachePut("c1")
    \/ CacheClear("c1")

SpecShared == Init /\ [][NextShared]_vars

\* two extract calls for the invoice production model run while another
\* user of the engine's cache loads and puts the models it does not hold
NextMiss ==
    \/ TickShared
    \/ \E p \in Requests : ExtractResolve(p, "invoice", None)
    \/ \E p \in Requests : ExtractGetEnter(p)
    \/ \E p \in Requests : ExtractGet(p)
    \/ \E p \in Requests : ExtractLoad(p)
    \/ \E p \in Requests : ExtractPutEnter(p)
    \/ \E p \in Requests : ExtractPut(p)
    \/ \E p \in Requests : ExtractInfer(p)
    \/ \E p \in Requests : ExtractSave(p)
    \/ \E key \in CacheKeys \ ({CacheKey("m1")} \cup DOMAIN models) :
          CacheEnter("c1", "put", key)
    \/ CachePut("c1")

SpecMiss == Init /\ [][NextMiss]_vars

\* ------------------------------------------------------------------------
\* Properties
\* ------------------------------------------------------------------------

\* time recorded for a key, and the key's place in insertion order
TimeOf(at, k) == at[CHOOSE i \in DOMAIN at : at[i].key = k].t
PosOf(at, k) == CHOOSE i \in DOMAIN at : at[i].key = k

\* C4: whatever get, put and clear calls concurrent callers issue, the cache
\* never holds more than max_models entries (handles or access times).
CacheWithinCapacity ==
    /\ Cardinality(DOMAIN models) <= max_models
    /\ Len(access_times) <= max_models
    /\ AtKeys(access_times) = DOMAIN models

\* a put into a full cache has just evicted and the cache is full again
CacheFullAfterEviction ==
    /\ log_evicted # Nil
    /\ Cardinality(DOMAIN models) = max_models

\* C5: a put of an absent key into a cache holding max_models keys evicts
\* exactly one entry, the one with the smallest access time and, among equal
\* times, the earliest inserted; any other put evicts nothing; in both
\* cases the key then maps to the new handle with the current time and every
\* other surviving entry is untouched.
PutEvictsLeastRecent ==
    [][\A c \in Callers : CachePut(c) =>
        LET key  == cop[c].key
            held == DOMAIN models
            kept == DOMAIN models' \ {key}
        IN  /\ IF Cardinality(held) = max_models /\ key \notin held
               THEN \E v \in held :
                      /\ DOMAIN models' = (held \ {v}) \cup {key}
                      /\ log_evicted' = v
                      /\ \A k \in held :
                            \/ TimeOf(access_times, v) < TimeOf(access_times, k)
                            \/ /\ TimeOf(access_times, v) = TimeOf(access_times, k)
                               /\ PosOf(access_times, v) <= PosOf(access_times, k)
               ELSE /\ DOMAIN models' = held \cup {key}
                    /\ log_evicted' = Nil
            /\ models'[key] = <<key, c>>
            /\ TimeOf(access_times', key) = now
            /\ AtKeys(access_times') = DOMAIN models'
            /\ \A k \in kept : /\ models'[k] = models[k]
                                /\ TimeOf(access_times', k) = TimeOf(access_times, k)
    ]_vars

\* a put has just evicted an entry and inserted its key as the newest one
EvictedAndInserted ==
    /\ log_evicted # Nil
    /\ log_evicted \notin DOMAIN models
    /\ Len(access_times) = max_models
    /\ access_times[max_models].t = now

\* C6: a get that hits returns the handle and makes its key the most
\* recently used, so that it is not the entry the next eviction removes; a
\* get that misses returns absent and changes nothing; clear empties the
\* cache.
GetHitMakesMostRecent ==
    [][\A c \in Callers :
        /\ CacheGet(c) =>
              LET key == cop[c].key
              IN  IF key \in DOMAIN models
                  THEN /\ cret' = models[key]
                       /\ Cardinality(DOMAIN models) >= 2
                             => LruKey(access_times') # key
                  ELSE /\ cret' = Nil
                       /\ UNCHANGED <<models, access_times>>
        /\ CacheClear(c) => models' = EmptyDict /\ access_times' = <<>>
    ]_vars

\* the rows of a document type that are flagged as production
Production(dt) == {m \in ModelIds : document_type(m) = dt /\ db[m].is_production}

\* C1: while extract requests and auto_promote_models runs interleave, every
\* document type has at most one row with is_production = True.
AtMostOneProduction ==
    \A dt \in DocTypes : Cardinality(Production(dt)) <= 1

\* C2: once concurrent promote requests for distinct candidates of one
\* document type have all returned (and nothing else wrote the store),
\* exactly one row of that type has is_production = True.
PromotionsLeaveOneProduction ==
    \A dt \in DocTypes :
        ( /\ \A p \in Promoters : prom[p].pc = "done" /\ document_type(prom[p].model) = dt
          /\ \A p, q \in Promoters : p # q => prom[p].model # prom[q].model
          /\ \A a \in AutoRuns : auto[a].pc = "idle" )
        => Cardinality(Production(dt)) = 1

\* C3: the write at the end of extract leaves is_production and status of
\* every row as they are stored, whatever was committed since the request
\* read its row.
ExtractKeepsProductionFlags ==
    [][\A p \in Requests : ExtractSave(p) =>
          \A m \in ModelIds : /\ db'[m].is_production = db[m].is_production
                              /\ db'[m].status = db[m].status
    ]_vars

\* C7: a request that is loading a handle or running inference does not
\* hold the cache lock; the lock is held only by a request inside get_model
\* or put_model.
LockOnlyInsideCacheCalls ==
    /\ \A p \in Requests : ext[p].pc \in {"load", "infer"} => lock # p
    /\ lock # Free => /\ lock \in Requests
                      /\ ext[lock].pc \in {"get_cs", "put_cs"}

\* one request is loading a handle while another is inside a cache call
LoadWhileOtherInCache ==
    \E p, q \in Requests :
        /\ p # q
        /\ ext[p].pc = "load"
        /\ lock = q
        /\ ext[q].pc \in {"get_cs", "put_cs"}

\* C8: when the row an extract request read is still what is stored, its
\* final write raises inference_count by exactly 1, sets last_used_at to the
\* current time and touches no other row; the store is written by a request
\* only in the step in which it succeeds, never in one in which it fails.
SequentialExtractCounts ==
    [][\A p \in Requests :
        /\ (ExtractSave(p) /\ db[ext[p].model] = ext[p].row) =>
              LET m == ext[p].model
              IN  /\ db'[m].inference_count = db[m].inference_count + 1
                  /\ db'[m].last_used_at = now
                  /\ now >= ext[p].start_time
                  /\ \A x \in ModelIds \ {m} : db'[x] = db[x]
        /\ (ext'[p] # ext[p] /\ db' # db) => ext'[p].pc = "done"
        /\ (ext'[p].pc = "failed" /\ ext[p].pc # "failed") => db' = db
    ]_vars

\* a request has succeeded after the clock moved and its write is stored
ExtractCounted ==
    \E p \in Requests :
        /\ ext[p].pc = "done"
        /\ db[ext[p].model].inference_count = 1
        /\ db[ext[p].model].last_used_at = now
        /\ now > 0

\* C9: when all extract requests have returned (and nothing else wrote the
\* store), the stored inference_count of every model equals the number of
\* successful requests that resolved to it.
NoLostUsageUpdate ==
    ( /\ \A p \in Requests : ext[p].pc \in {"idle", "done", "failed"}
      /\ \A a \in AutoRuns : auto[a].pc = "idle" )
    => \A m \in ModelIds :
          db[m].inference_count =
              Cardinality({p \in Requests : ext[p].pc = "done" /\ ext[p].model = m})

\* C10: an extract request made with a document type and no version while
\* an active, unexpired test exists for the type is served by an arm of the
\* first such test, and that arm's request counter is incremented.
ExtractUsesTestArm ==
    [][\A p \in Requests, args \in ExtractArgs :
        LET i == FirstRoutable(active_tests, args[1], now)
        IN  ( /\ ExtractResolve(p, args[1], args[2])
              /\ args[2] = None
              /\ args[1] \in DocTypes
              /\ i # 0 )
            => \/ /\ ext'[p].model = active_tests[i].model_a
                  /\ active_tests'[i].model_a_requests = active_tests[i].model_a_requests + 1
               \/ /\ ext'[p].model = active_tests[i].model_b
                  /\ active_tests'[i].model_b_requests = active_tests[i].model_b_requests + 1
    ]_vars

BatchOneEntryPerInput ==
    batch.pc = "done" =>
        /\ Len(batch.results) = Len(batch.image_paths)
        /\ \A j \in DOMAIN batch.results :
              IF "error" \in DOMAIN batch.results[j]
              THEN batch.results[j].image_path = batch.image_paths[j]
              ELSE batch.results[j].extracted_data = <<"data", batch.image_paths[j]>>

\* a >= b on fractions
RGeq(a, b) == ~RLess(a, b)

\* the averages as the specification words them: the mean of
\* field_matches / max(total_fields, 1), and the mean of confidence_score
\* with 0.5 standing in for a null score
MeanAccuracy(evals) ==
    RDivInt(RSum([j \in DOMAIN evals |->
                    RNorm(evals[j].field_matches, Max(evals[j].total_fields, 1))]),
            Len(evals))
MeanConfidence(evals) ==
    RDivInt(RSum([j \in DOMAIN evals |->
                    IF evals[j].confidence_score = NoScore THEN <<1, 2>>
                    ELSE evals[j].confidence_score]),
            Len(evals))

\* the four gates on the input of the evaluate_model call
CountGate == Len(evaluated.evaluations) >= min_evaluations
AccuracyGate == RGeq(MeanAccuracy(evaluated.evaluations), min_accuracy)
ConfidenceGate == RGeq(MeanConfidence(evaluated.evaluations), confidence_threshold)
Compared == evaluated.production.exists /\ evaluated.production.evaluations # <<>>
ImprovementGate ==
    Compared => RGeq(RSub(MeanAccuracy(evaluated.evaluations),
                          MeanAccuracy(evaluated.production.evaluations)),
                     improvement_threshold)

\* C14: a candidate with fewer than min_evaluations evaluations is not
\* promotable, whatever its accuracy and confidence and whether or not a
\* production model exists; metrics then holds the evaluation count only
\* and reasons has exactly one entry.
TooFewEvaluationsNotPromotable ==
    (evaluated.pc = "returned" /\ ~CountGate) =>
        /\ evaluated.result.promotable = FALSE
        /\ DOMAIN evaluated.result.metrics = {"evaluation_count"}
        /\ evaluated.result.metrics.evaluation_count = Len(evaluated.evaluations)
        /\ Len(evaluated.result.reasons) = 1

\* a candidate one evaluation short, with accuracy and confidence above the
\* thresholds and no production model to beat, was refused
RefusedOneEvaluationShort ==
    /\ evaluated.pc = "returned"
    /\ Len(evaluated.evaluations) = min_evaluations - 1
    /\ AccuracyGate /\ ConfidenceGate
    /\ ~evaluated.production.exists
    /\ ~evaluated.result.promotable

\* C15: evaluate_model returns promotable exactly when the count gate, the
\* accuracy gate, the confidence gate (null scores counting 0.5) and, when
\* a production model with evaluations exists, the improvement gate all
\* pass; the gates are tested in that order and the first failing one is
\* the only reason reported.
PromotableExactlyWhenGatesPass ==
    evaluated.pc = "returned" =>
        /\ evaluated.result.promotable
              <=> (CountGate /\ AccuracyGate /\ ConfidenceGate /\ ImprovementGate)
        /\ evaluated.result.reasons =
              IF ~CountGate THEN <<"Insufficient evaluations">>
              ELSE IF ~AccuracyGate THEN <<"Accuracy too low">>
              ELSE IF ~ConfidenceGate THEN <<"Confidence too low">>
              ELSE IF ~ImprovementGate THEN <<"Insufficient improvement">>
              ELSE <<"Model meets all promotion criteria">>

Promoted(c, before, after) ==
    /\ after[c].is_production
    /\ after[c].status = "active"
    /\ \A x \in ModelIds \ {c} :
          IF document_type(x) = document_type(c) /\ before[x].is_production
          THEN ~after[x].is_production /\ after[x].status = "inactive"
          ELSE after[x] = before[x]

\* C17: a promotion that runs without a concurrent promotion leaves the
\* candidate production and active, every other row of its type that was
\* production demoted to inactive, and all remaining rows (other types, and
\* rows of the type that were not production) untouched.  For the endpoint
\* this is the effect of its two writes: the first demotes exactly the
\* production rows of the type, the second writes the candidate only.
PromotionFrame ==
    [][/\ \A a \in AutoRuns :
            AutoPromote(a) => Promoted(auto[a].candidates[auto[a].i].id, db, db')
       /\ \A p \in Promoters :
            /\ PromoteDemote(p) =>
                  \A x \in ModelIds :
                      IF document_type(x) = document_type(prom[p].model)
                         /\ db[x].is_production
                      THEN db'[x] = [db[x] EXCEPT !.is_production = FALSE,
                                                  !.status = "inactive"]
                      ELSE db'[x] = db[x]
            /\ PromoteSave(p) =>
                  /\ db'[prom[p].model].is_production
                  /\ db'[prom[p].model].status = "active"
                  /\ \A x \in ModelIds \ {prom[p].model} : db'[x] = db[x]
            /\ ( /\ PromoteSave(p)
                 /\ \A q \in Promoters \ {p} : prom[q].pc = "idle"
                 /\ \A a \in AutoRuns : auto[a].pc = "idle" )
                  => Promoted(prom[p].model, InitialStore, db')
    ]_vars

\* the endpoint, running alone, has promoted m2: m1 is demoted, the rows of
\* m3 and m4 are as they were
PromotedAlone ==
    \E p \in Promoters :
        /\ prom[p].pc = "done" /\ prom[p].model = "m2"
        /\ \A q \in Promoters \ {p} : prom[q].pc = "idle"
        /\ \A a \in AutoRuns : auto[a].pc = "idle"
        /\ db["m2"].is_production /\ db["m2"].status = "active"
        /\ ~db["m1"].is_production /\ db["m1"].status = "inactive"
        /\ db["m3"] = InitialStore["m3"] /\ db["m4"] = InitialStore["m4"]

SameArmForUser ==
    \A e, f \in DOMAIN route_log :
        (e[1] = f[1] /\ e[2] = f[2] /\ e[3] = f[3]) => e[4] = f[4]

\* u1 was routed twice through a test, u2 was sent to the other arm of the
\* same test, a success was recorded for it and a second test was started
RoutedTwiceAmongOthers ==
    \E e, f \in DOMAIN route_log :
        /\ e[1] = "u1" /\ route_log[e] = 2
        /\ f[1] = "u2" /\ f[2] = e[2] /\ f[4] # e[4]
        /\ Len(active_tests) = 2
        /\ \E i \in DOMAIN active_tests :
              /\ active_tests[i].test_id = e[2]
              /\ active_tests[i].model_a_success + active_tests[i].model_b_success > 0

\* C20: a request with a user id that is routed through a test gets model_b
\* if and only if the hash of user id and test id, modulo 100, is below
\* traffic_split * 100, and model_a otherwise; the request counter of the
\* arm returned goes up by 1 and nothing else of any test changes.
HashDecidesArm ==
    [][\A dt \in DocTypes, u \in UserIds \ {None} :
        LET i == FirstRoutable(active_tests, dt, now)
            test == active_tests[i]
            below == HashMod100(u, test.test_id) * test.traffic_split[2]
                        < test.traffic_split[1] * 100
        IN  (GetModelForRequest(dt, u, FALSE) /\ i # 0) =>
              IF below
              THEN /\ routed' = test.model_b
                   /\ active_tests' =
                        [active_tests EXCEPT ![i].model_b_requests = test.model_b_requests + 1]
              ELSE /\ routed' = test.model_a
                   /\ active_tests' =
                        [active_tests EXCEPT ![i].model_a_requests = test.model_a_requests + 1]
    ]_vars

\* two users were routed through one test, one to each arm, and each arm
\* has counted one request
OneRequestPerArm ==
    \E i \in DOMAIN active_tests :
        /\ active_tests[i].model_a_requests = 1
        /\ active_tests[i].model_b_requests = 1
        /\ \E u, v \in UserIds \ {None} :
              /\ <<u, active_tests[i].test_id, active_tests[i].traffic_split,
                    active_tests[i].model_a>> \in DOMAIN route_log
              /\ <<v, active_tests[i].test_id, active_tests[i].traffic_split,
                    active_tests[i].model_b>> \in DOMAIN route_log

\* the test is active, unexpired at t, and its model_a is of the type
ActiveUnexpired(test, doc_type, t) ==
    /\ test.status = "active"
    /\ t < test.end_time
    /\ document_type(test.model_a) = doc_type

\* C21: a get_model_for_inference call made while no test is active and
\* unexpired with a model_a of the requested type returns the production,
\* active row of that type and leaves every test as it was; a call made
\* while there is such a test returns an arm of one
RouteReturnsArmOrProduction ==
    [][\A dt \in DocTypes, u \in UserIds, b \in BOOLEAN :
          GetModelForInference(dt, u, b) =>
             IF \E i \in DOMAIN active_tests : ActiveUnexpired(active_tests[i], dt, now)
             THEN \E i \in DOMAIN active_tests :
                     /\ ActiveUnexpired(active_tests[i], dt, now)
                     /\ routed' \in {active_tests[i].model_a, active_tests[i].model_b}
             ELSE /\ routed' \in ProductionRows(db, dt)
                  /\ active_tests' = active_tests]_vars

\* C22: a get_model_for_inference call made while several tests are active
\* and unexpired for the type is routed through the one of them that was
\* started first
RoutedThroughEarliestStarted ==
    [][\A dt \in DocTypes, b \in BOOLEAN :
          GetModelForInference(dt, None, b) =>
             \A i \in DOMAIN active_tests :
                active_tests'[i] # active_tests[i] =>
                   \A j \in DOMAIN active_tests :
                      ActiveUnexpired(active_tests[j], dt, now) =>
                         active_tests[i].start_time <= active_tests[j].start_time]_vars

\* a test as it was, but for its two success counters
SuccessCleared(test) == [test EXCEPT !.model_a_success = 0, !.model_b_success = 0]

\* C23: record_result with success = True for a held test and the model of
\* one of its arms adds exactly 1 to the success counter of an arm that has
\* that model and changes nothing else; with success = False, an unknown
\* test id or a model that is no arm of the test it changes nothing; request
\* counters and statuses are never changed
RecordResultCountsSuccessOnly ==
    [][\A id \in KnownTestIds \cup {UnknownTestId}, m \in ModelIds, ok \in BOOLEAN :
          RecordResult(id, m, ok) =>
             IF /\ ok
                /\ \E i \in DOMAIN active_tests :
                      /\ active_tests[i].test_id = id
                      /\ m \in {active_tests[i].model_a, active_tests[i].model_b}
             THEN /\ DOMAIN active_tests' = DOMAIN active_tests
                  /\ \E i \in DOMAIN active_tests :
                        /\ active_tests[i].test_id = id
                        /\ \/ /\ active_tests[i].model_a = m
                              /\ active_tests'[i] =
                                   [active_tests[i] EXCEPT !.model_a_success = @ + 1]
                           \/ /\ active_tests[i].model_b = m
                              /\ active_tests'[i] =
                                   [active_tests[i] EXCEPT !.model_b_success = @ + 1]
                        /\ \A j \in DOMAIN active_tests \ {i} :
                              active_tests'[j] = active_tests[j]
                  /\ \A i \in DOMAIN active_tests :
                        SuccessCleared(active_tests'[i]) = SuccessCleared(active_tests[i])
             ELSE active_tests' = active_tests]_vars

\* C23 witness: one success was recorded for model_b of a test, none for
\* its model_a
SuccessRecordedForB ==
    \E i \in DOMAIN active_tests :
       /\ active_tests[i].model_b_success = 1
       /\ active_tests[i].model_a_success = 0

\* C24: get_test_results reports for each arm of a held test its counters
\* and successes / max(requests, 1), names model_a the winner when its rate
\* is strictly the greater and model_b otherwise, returns 'Test not found'
\* for an id that no test has, and changes no test
ResultsRatesAndWinner ==
    [][\A id \in KnownTestIds \cup {UnknownTestId} :
          GetTestResults(id) =>
             /\ active_tests' = active_tests
             /\ IF id \in KnownTestIds
                THEN \E i \in DOMAIN active_tests :
                        LET test == active_tests[i]
                            a == returned'.model_a
                            b == returned'.model_b
                        IN  /\ test.test_id = id
                            /\ returned'.kind = "results"
                            /\ a.requests = test.model_a_requests
                            /\ a.successes = test.model_a_success
                            /\ b.requests = test.model_b_requests
                            /\ b.successes = test.model_b_success
                            /\ a.success_rate[1] * Max(a.requests, 1)
                                  = a.successes * a.success_rate[2]
                            /\ b.success_rate[1] * Max(b.requests, 1)
                                  = b.successes * b.success_rate[2]
                            /\ returned'.winner =
                                  IF a.successes * Max(b.requests, 1)
                                        > b.successes * Max(a.requests, 1)
                                  THEN "model_a" ELSE "model_b"
                ELSE /\ returned'.kind = "error"
                     /\ returned'.error = "Test not found"]_vars

\* C24 witness: results were returned for a test both arms of which served
\* requests at the same success rate, and model_b is named the winner
EqualRatesNameModelB ==
    /\ returned.kind = "results"
    /\ returned.model_a.requests > 0
    /\ returned.model_b.requests > 0
    /\ returned.model_a.successes > 0
    /\ returned.model_a.success_rate = returned.model_b.success_rate
    /\ returned.winner = "model_b"

\* the test can no longer be routed through at t: it is completed, or t has
\* reached its end_time
Over(test, t) == test.status = "completed" \/ t >= test.end_time

\* C25: cleanup_expired_tests completes exactly the active tests whose
\* end_time lies before now and leaves the others as they were; a test that
\* is completed, or whose end_time has been reached, stays in its place and
\* keeps its request counters in every step, and a completed test stays
\* completed
ExpiredTestsAreLeftAlone ==
    [][/\ CleanupExpiredTests =>
             /\ DOMAIN active_tests' = DOMAIN active_tests
             /\ \A i \in DOMAIN active_tests :
                   active_tests'[i] =
                      IF active_tests[i].status = "active" /\ now > active_tests[i].end_time
                      THEN [active_tests[i] EXCEPT !.status = "completed"]
                      ELSE active_tests[i]
       /\ \A i \in DOMAIN active_tests :
             Over(active_tests[i], now) =>
                /\ i \in DOMAIN active_tests'
                /\ active_tests'[i].test_id = active_tests[i].test_id
                /\ active_tests'[i].model_a_requests = active_tests[i].model_a_requests
                /\ active_tests'[i].model_b_requests = active_tests[i].model_b_requests
                /\ active_tests[i].status = "completed" =>
                      active_tests'[i].status = "completed"]_vars

\* C25 witness: a test that served requests was completed by
\* cleanup_expired_tests while another test is still active and unexpired
CompletedBesideActive ==
    \E i, j \in DOMAIN active_tests :
       /\ active_tests[i].status = "completed"
       /\ active_tests[i].model_a_requests + active_tests[i].model_b_requests > 0
       /\ ActiveUnexpired(active_tests[j], "invoice", now)

\* C27: create_challenger_test returns an error and leaves the tests as
\* they were when the type is unknown or has no production, active model,
\* when the challenger is not stored, or when the challenger is of another
\* type; otherwise it returns the id of an active test that it holds with
\* the production model of the type as model_a, the challenger as model_b,
\* both of the requested type, and the traffic_split given, and leaves the
\* tests held under other ids as they were
ChallengerTestOrError ==
    [][\A dt \in ChallengerTypes, m \in ChallengerIds, ts \in StartSplits, d \in Durations :
          CreateChallengerTest(dt, m, ts, d) =>
             IF /\ dt \in DocTypes
                /\ ProductionRows(db, dt) # {}
                /\ m \in ModelIds
                /\ document_type(m) = dt
             THEN /\ returned'.kind = "test"
                  /\ Len(active_tests') <= Len(active_tests) + 1
                  /\ \E i \in DOMAIN active_tests' :
                        LET test == active_tests'[i]
                        IN  /\ test.test_id = returned'.test_id
                            /\ test.model_a \in ProductionRows(db, dt)
                            /\ test.model_b = m
                            /\ document_type(test.model_a) = dt
                            /\ document_type(test.model_b) = dt
                            /\ test.traffic_split = ts
                            /\ test.status = "active"
                            /\ \A j \in DOMAIN active_tests' \ {i} :
                                  /\ j \in DOMAIN active_tests
                                  /\ active_tests'[j] = active_tests[j]
                                  /\ active_tests'[j].test_id # test.test_id
             ELSE /\ returned'.kind = "error"
                  /\ active_tests' = active_tests]_vars

\* C27 witness: a challenger test was created against a production model
\* that a promote request had put in place
ChallengerAgainstPromoted ==
    /\ returned.kind = "test"
    /\ returned.production_model.id = "m2"
    /\ returned.challenger_model.id = "m3"
    /\ \E i \in DOMAIN active_tests :
          /\ active_tests[i].test_id = returned.test_id
          /\ active_tests[i].model_a = "m2"

\* calls of the kind that have returned after loading the named counter of
\* the test at position i
Completed(i, fields) ==
    Cardinality({r \in Routers : /\ router[r].pc = "done"
                                 /\ router[r].i = i
                                 /\ router[r].field \in fields})

\* C26: once every concurrent call has returned, the two request counters
\* of a test add up to the number of calls routed through it, and each
\* success counter equals the number of successes recorded for its arm
NoLostCounterIncrement ==
    (\A r \in Routers : router[r].pc # "store") =>
       \A i \in DOMAIN active_tests :
          /\ active_tests[i].model_a_requests + active_tests[i].model_b_requests
                = Completed(i, {"model_a_requests", "model_b_requests"})
          /\ active_tests[i].model_a_success = Completed(i, {"model_a_success"})
          /\ active_tests[i].model_b_success = Completed(i, {"model_b_success"})

\* the value is absent (null) or an empty string
Empty(value) == value.kind = "null" \/ (value.kind = "str" /\ value.chars = <<>>)

\* the score of a value that is not empty, in tenths, as the sum of the
\* three adjustments, clamped to [0, 1]
AdjustedScore(value, rule) ==
    LET text == Str(value)
        sum == 5
               + (IF rule.type = "number" THEN (IF FloatParses(text) THEN 2 ELSE -3) ELSE 0)
               + (IF rule.type = "date" THEN (IF DateParses(text) THEN 2 ELSE -3) ELSE 0)
               + (IF rule.pattern = NoPattern THEN 0
                  ELSE IF Matches(rule.pattern, text) THEN 2 ELSE -2)
               + (IF InLength(Len(text), rule) THEN 1 ELSE -2)
    IN  IF sum < 0 THEN 0 ELSE IF sum > 10 THEN 10 ELSE sum

\* C28: _validate_field returns a score in [0, 1]: 0.2 for an empty or
\* absent value, and otherwise 0.5 plus 0.2 or minus 0.3 for a number or
\* date rule by whether the text parses, plus or minus 0.2 for a pattern by
\* whether it matches, plus 0.1 or minus 0.2 by whether the length is within
\* the limits, clamped to [0, 1]
FieldScoreAsAdjusted ==
    (scored.pc = "returned" /\ scored.call = "validate_field") =>
       /\ scored.score \in 0..10
       /\ scored.score = IF Empty(scored.value) THEN 2
                         ELSE AdjustedScore(scored.value, scored.rule)

\* C29: the scores of an extraction result are one per field of the dict:
\* the _validate_field score where the type has a rule for the field, else
\* 0.7 for a non-empty and 0.3 for an empty value; overall is their mean,
\* 0.5 without fields or for a result that is no dict; threshold_met is
\* overall >= confidence_threshold
ResultScoredPerField ==
    (scored.pc = "returned" /\ scored.call = "extract") =>
       LET data == scored.extracted_data
           rules == validation_rules(scored.doc_type)
           scores == scored.confidence.field_scores
           overall == scored.confidence.overall
       IN  /\ DOMAIN scores = IF data.is_dict THEN DOMAIN data.fields ELSE {}
           /\ \A f \in DOMAIN scores :
                 scores[f] = IF HasRule(rules, f)
                             THEN validate_field(data.fields[f], RuleOf(rules, f))
                             ELSE IF Empty(data.fields[f]) THEN 3 ELSE 7
           /\ IF DOMAIN scores = {}
              THEN overall = <<1, 2>>
              ELSE overall[1] * 10 * Cardinality(DOMAIN scores)
                      = SumOver(scores, DOMAIN scores) * overall[2]
           /\ scored.confidence.threshold_met
                 <=> (overall[1] * scored.threshold[2] >= scored.threshold[1] * overall[2])

\* the errors of the kind returned for the field
ErrorsOf(errors, kind, field) ==
    {k \in DOMAIN errors : errors[k] = OutputError(kind, field)}

\* C30: _validate_output returns the one 'Invalid output format' error
\* for a result that is no dict; for a dict, a field with a rule yields a
\* 'Required field' error exactly when it is missing and required, a number
\* error exactly when it is present under a number rule and its text does
\* not parse, and a format error exactly when it is present and its text
\* does not match the pattern of the rule; no other error is returned
OutputErrorsPerRule ==
    (scored.pc = "returned" /\ scored.call = "validate_output") =>
       LET data == scored.extracted_data
           rules == validation_rules(scored.doc_type)
           errors == scored.errors
       IN  IF ~data.is_dict
           THEN errors = <<OutputError("Invalid output format: expected dictionary", "")>>
           ELSE /\ \A k \in DOMAIN errors : HasRule(rules, errors[k].field)
                /\ \A r \in DOMAIN rules :
                      LET f == rules[r].field
                          rule == rules[r].rule
                          present == f \in DOMAIN data.fields
                      IN  /\ ErrorsOf(errors, "Required field is missing", f) # {}
                                <=> (~present /\ rule.required)
                          /\ ErrorsOf(errors, "should be a number", f) # {}
                                <=> /\ present
                                    /\ rule.type = "number"
                                    /\ ~FloatParses(Str(data.fields[f]))
                          /\ ErrorsOf(errors, "format is invalid", f) # {}
                                <=> /\ present
                                    /\ rule.pattern # NoPattern
                                    /\ ~Matches(rule.pattern, Str(data.fields[f]))

\* C31: monitor_model_health returns a report whose overall_status is
\* 'degraded' exactly when some document type has no production, active
\* model and 'healthy' otherwise, whose issues hold a 'No production model'
\* entry for each such type, and hold a 'not used in 24+ hours' entry for a
\* production model last used more than a day ago, which leaves
\* overall_status as it is
HealthReportNamesMissingTypes ==
    [][MonitorModelHealth =>
          LET lacking == {dt \in DocTypes : ProductionRows(db, dt) = {}}
              stale == {dt \in DocTypes \ lacking :
                          LET last == db[Newest(ProductionRows(db, dt))].last_used_at
                          IN  last # NoTime /\ now - last > TicksPerDay}
          IN  /\ returned'.kind = "health"
              /\ returned'.health_status.overall_status
                    = IF lacking # {} THEN "degraded" ELSE "healthy"
              /\ \A dt \in lacking :
                    \E k \in DOMAIN returned'.issues :
                       returned'.issues[k] = Issue("No production model", dt)
              /\ \A dt \in stale :
                    \E k \in DOMAIN returned'.issues :
                       returned'.issues[k] = Issue("hasn't been used in 24+ hours", dt)]_vars

\* C32: start_ab_test adds one test, with all four counters 0, status
\* active and end_time = start_time + duration, under an id that no held
\* test has, and leaves every held test as it was
StartAddsTestUnderNewId ==
    [][\A pair \in StartPairs, ts \in TrafficSplits, d \in Durations :
          StartABTest(pair[1], pair[2], ts, d) =>
             /\ Len(active_tests') = Len(active_tests) + 1
             /\ \A i \in DOMAIN active_tests : active_tests'[i] = active_tests[i]
             /\ LET test == active_tests'[Len(active_tests')]
                IN  /\ test.test_id \notin KnownTestIds
                    /\ test.model_a = pair[1]
                    /\ test.model_b = pair[2]
                    /\ test.model_a_requests = 0
                    /\ test.model_b_requests = 0
                    /\ test.model_a_success = 0
                    /\ test.model_b_success = 0
                    /\ test.status = "active"
                    /\ test.start_time = now
                    /\ test.end_time = test.start_time + d * TicksPerDay]_vars

\* C33: a handle removed from the cache (by a put for another model or by
\* clear) may still be held by an extract call that obtained it earlier:
\* the removal never waits for such a call (a caller inside put_model or
\* clear can always finish it), and the call can still finish its inference
\* on the handle and add one to the inference_count of the row it read
EvictedHandleStillServes ==
    /\ (lock = "c1" /\ cop["c1"].op = "put") => ENABLED CachePut("c1")
    /\ (lock = "c1" /\ cop["c1"].op = "clear") => ENABLED CacheClear("c1")
    /\ \A p \in Requests :
          /\ (lock = p /\ ext[p].pc = "put_cs") => ENABLED ExtractPut(p)
          /\ ext[p].pc = "infer" =>
                ENABLED (ExtractInfer(p) /\ ext'[p].pc = "save")
          /\ ext[p].pc = "save" =>
                ENABLED (/\ ExtractSave(p)
                         /\ ext'[p].pc = "done"
                         /\ db'[ext[p].model].inference_count
                               = ext[p].row.inference_count + 1)

\* an extract call is about to run inference on a handle whose key the
\* cache no longer holds
EvictedHandleInUse ==
    \E p \in Requests :
       /\ ext[p].pc = "infer"
       /\ ext[p].handle # Nil
       /\ CacheKey(ext[p].model) \notin DOMAIN models

\* C37: two extract calls that miss the cache for the same model both load
\* a handle without holding the lock and both put it; each put leaves one
\* entry for the model, holding the handle just put, the put that finds the
\* model cached evicts nothing and the other at most one entry, and each
\* call goes on to inference with the handle it loaded itself
ConcurrentMissesPutTwice ==
    [][\A p \in Requests :
          /\ ExtractLoad(p) => lock # p
          /\ ExtractPut(p) =>
                LET key == CacheKey(ext[p].model)
                    own == <<key, p>>
                IN  /\ ext[p].handle = own
                    /\ models'[key] = own
                    /\ ext'[p].handle = own /\ ext'[p].pc = "infer"
                    /\ \A q \in Requests \ {p} : ext'[q] = ext[q]
                    /\ Cardinality(DOMAIN models \ DOMAIN models') <= 1
                    /\ DOMAIN models' \ DOMAIN models \subseteq {key}
                    /\ key \in DOMAIN models => DOMAIN models' = DOMAIN models
                    /\ \A k \in (DOMAIN models \cap DOMAIN models') \ {key} :
                          models'[k] = models[k]]_vars

\* both calls have missed, loaded and put, the cache is full, and each is
\* about to run inference on its own handle
BothLoadedAndPut ==
    LET key == CacheKey("m1")
    IN  /\ \A p \in Requests :
              ext[p].pc = "infer" /\ ext[p].model = "m1" /\ ext[p].handle = <<key, p>>
        /\ key \in DOMAIN models
        /\ \E p \in Requests : models[key] = <<key, p>>
        /\ Cardinality(DOMAIN models) = max_models

\* C34: when auto_promote_models commits a promotion, the candidate's
\* average accuracy exceeds that of every production model of the type
\* it replaces (one that has evaluations) by at least improvement_threshold
AutoPromoteGateAtCommit ==
    [][\A a \in AutoRuns :
          AutoPromote(a) =>
             LET cand == auto[a].candidates[auto[a].i].id
                 replaced == {m \in ModelIds \ {cand} :
                                 /\ document_type(m) = document_type(cand)
                                 /\ db[m].is_production}
             IN  \A m \in replaced :
                    evaluation_count[m] > 0 =>
                       RGeq(RSub(avg_accuracy[cand], avg_accuracy[m]),
                            improvement_threshold)]_vars

\* rows that are or have been production: the initial production rows and
\* the rows a promotion has stamped
EverProduction(m) == InitialStore[m].is_production \/ db[m].promoted_at # NoTime

\* C35: with auto_promote_models runs one after another as the only writer,
\* every promotion that replaces a production model raises the production
\* accuracy of the type by at least improvement_threshold and leaves the
\* candidate as the type's only production model; no model that has been
\* production is promoted by a later step; and from some point on no run
\* promotes anything
AutoPromotionsRaiseAccuracy ==
    /\ [][AutoPromote("a1") =>
             LET cand == auto["a1"].candidates[auto["a1"].i].id
                 replaced == ProductionRows(db, document_type(cand))
             IN  /\ ~EverProduction(cand)
                 /\ \A m \in replaced :
                       RGeq(RSub(avg_accuracy[cand], avg_accuracy[m]),
                            improvement_threshold)
                 /\ {m \in ModelIds : document_type(m) = document_type(cand)
                                      /\ db'[m].is_production} = {cand}
                 /\ \A m \in replaced : db'[m].status = "inactive"]_vars
    /\ <>[][~AutoPromote("a1")]_vars

\* a run has promoted a candidate over the production model, which is now
\* an inactive candidate of later runs
DemotedByAutoPromote ==
    /\ auto["a1"].pc = "idle"
    /\ db["m3"].is_production
    /\ db["m1"].status = "inactive" /\ ~db["m1"].is_production

\* C36: whatever extract calls, auto_promote_models runs and promote
\* requests do, a row with is_production set has status active, and a row
\* that a step leaves without the is_production flag it had is inactive
ProductionIsActive ==
    /\ [](\A m \in ModelIds : db[m].is_production => db[m].status = "active")
    /\ [][\A m \in ModelIds :
             (db[m].is_production /\ ~db'[m].is_production) =>
                db'[m].status = "inactive"]_vars

\* the initial production model has been demoted by a promotion and stays
\* inactive after an extract call has saved its row
DemotedAndExtracted ==
    /\ ~db["m1"].is_production /\ db["m1"].status = "inactive"
    /\ \E m \in ModelIds \ {"m1"} : db[m].is_production
    /\ ext["e1"].pc = "done"

\* C38: in every A/B test each arm's success counter is at most the arm's
\* request counter
SuccessWithinRequests ==
    \A i \in DOMAIN active_tests :
       /\ active_tests[i].model_a_success <= active_tests[i].model_a_requests
       /\ active_tests[i].model_b_success <= active_tests[i].model_b_requests

\* C39: the save that ends a successful extract call (the row unchanged
\* since the call read it) stores the elapsed time as avg_inference_time
\* when the stored value is null and (stored + elapsed) / 2 otherwise; and
\* the in-memory total_inferences of a model grows by one in exactly the
\* calls that go on to that save, so that both counts grow together
ExtractAveragesAndCounts ==
    [][/\ \A p \in Requests :
            /\ (ExtractSave(p) /\ db[ext[p].model] = ext[p].row) =>
                  LET m == ext[p].model
                      stored == db[m].avg_inference_time
                      elapsed == RNorm(ext[p].inference_time, 1)
                  IN  /\ db'[m].avg_inference_time =
                            IF stored = NoAvg THEN elapsed
                            ELSE RDivInt(RAdd(stored, elapsed), 2)
                      /\ db'[m].inference_count = db[m].inference_count + 1
            /\ (ext[p].pc = "infer" /\ ext'[p].pc = "save") =>
                  inference_stats' = [inference_stats EXCEPT ![ext[p].model] = @ + 1]
       /\ inference_stats' # inference_stats =>
             \E p \in Requests : ext[p].pc = "infer" /\ ext'[p].pc = "save"]_vars

====
